---- MODULE Spec2Model ----
(***************************************************************************)
(* Model of the SAT-attack engine of the moosic logic-locking plugin:      *)
(* the MiniAIG structural model with its batch and incremental simulation, *)
(* the translation of the AIG to SAT, the oracle/design adapter, the       *)
(* exact (runSat) and approximate (runAppSat) attack controllers, the      *)
(* output values of the analyzer and the Pareto front of the optimizer.    *)
(***************************************************************************)
EXTENDS Integers, Sequences, FiniteSets, TLC

VARIABLES
    \* MiniAIG
    nbInputs_,      \* number of AIG inputs (primary inputs and key bits)
    nodes_,         \* sequence of <<a, b>> literal pairs
    outputs_,       \* sequence of output literals
    state_,         \* one word per variable
    savedState_,    \* snapshot used by the incremental simulation
    fanouts_,       \* per variable, the list of nodes reading it
    handedOut,      \* the literals the AIG has returned to its caller, and their inverses
    test_vectors_,  \* LogicLockingAnalyzer: the test vectors, one word per input each
    isTouched_,     \* per variable, touched during the current probe
    touchedVars_,   \* list of the touched variables
    toVisit_,       \* worklist of the incremental simulation
    \* LogicLockingAnalyzer / adapter
    comb_inputs_,   \* per AIG input: is it a key bit, and its offset in the key port
    \* driver of the simulation calls
    aigPc,          \* position of the simulation driver
    probe,          \* record of the last simulation call and of its result
    \* SatAttack
    ctor,           \* arguments and log of the constructor of SatAttack
    expectedKey_,
    testInputs_,
    testOutputs_,
    bestKey_,
    keyFound_,
    pc,             \* position inside runSat / runAppSat
    params,         \* arguments of the current run
    queryCount,
    settleCount,
    di,             \* result of the last DI query
    meas,           \* record of the last call of measureErrorAndConstrain
    \* Optimizer
    paretoFront_,   \* sequence of [first |-> solution, second |-> objective value]
    lastAdd         \* record of the last call of tryAddSolution

aigStruct == <<nbInputs_, nodes_, outputs_, fanouts_, handedOut, comb_inputs_, test_vectors_>>
aigIncr == <<savedState_, isTouched_, touchedVars_, toVisit_>>
aigVars == <<aigStruct, state_, aigIncr, aigPc, probe>>
ctorVars == <<ctor, expectedKey_>>
satVars == <<ctorVars, testInputs_, testOutputs_, bestKey_, keyFound_, pc, params,
             queryCount, settleCount, di, meas>>
optVars == <<paretoFront_, lastAdd>>
vars == <<aigVars, satVars, optVars>>

----------------------------------------------------------------------------
(* Bounds *)

\* number of simulation lanes of a word (64 in the program)
NbLanes == 2
\* number of nodes of the exhaustively enumerated AIGs
EnumNodes == 1
\* longest toggle list given to simulateWithToggling
MaxToggles == 1
\* the probes since the last snapshot are counted up to this number
MaxProbeCount == 2
\* largest nbInitialVectors given to runSat and runAppSat
MaxInitialVectors == 1
\* largest nbDIQueries given to runAppSat
MaxDIQueries == 2
\* largest nbRandomVectors given to runAppSat
MaxRandomVectors == 2
\* largest settleThreshold given to runAppSat
MaxSettleThreshold == 2
\* the keys given to the constructor have at most this number of bits more than the key port
MaxExtraKeyBits == 4
\* largest number of inputs and of nodes of an AIG under construction
MaxBuildInputs == 1
MaxBuildNodes == 3
\* largest number of test vectors given to the analyzer
MaxTestVectors == 2
\* number of objectives of the optimizer, largest objective value, number of lockable nodes
NbObjectives == 2
MaxObjective == 2
NbNodes == 2

----------------------------------------------------------------------------
(* Words: a std::uint64_t is the set of the lanes whose bit is set *)

Lanes == 1..NbLanes
Word == SUBSET Lanes
WordZero == {}
WordOnes == Lanes
NotW(w) == Lanes \ w
AndW(a, b) == a \cap b
XorW(a, b) == (a \ b) \cup (b \ a)

\* 0-based access to a std::vector
At(v, i) == v[i + 1]
Set(v, i, x) == [v EXCEPT ![i + 1] = x]
Size(v) == Len(v)

----------------------------------------------------------------------------
(* Lit *)

variable(l) == l \div 2
polarity(l) == (l % 2) = 1
inv(l) == IF l % 2 = 0 THEN l + 1 ELSE l - 1
LitZero == 0
LitOne == 1
is_constant(l) == variable(l) = 0
getInput(input) == (input + 1) * 2

----------------------------------------------------------------------------
(* MiniAIG: batch simulation *)

nodeA(j) == At(nodes_, j)[1]
nodeB(j) == At(nodes_, j)[2]

getValue(st, a) ==
    LET s == At(st, variable(a))
        toggle == IF a % 2 = 1 THEN WordOnes ELSE WordZero
    IN XorW(s, toggle)

getOutputValues(st) == [j \in 1..Len(outputs_) |-> getValue(st, outputs_[j])]

\* the node loop with `&=` in place of `=`: the old value of the node is kept in the AND
RECURSIVE simulateNodesAccumulate(_, _)
simulateNodesAccumulate(st, i) ==
    IF i >= Len(nodes_) THEN st
    ELSE simulateNodesAccumulate(
             Set(st, i + nbInputs_ + 1,
                 AndW(At(st, i + nbInputs_ + 1),
                      AndW(getValue(st, nodeA(i)), getValue(st, nodeB(i))))), i + 1)

RECURSIVE simulateNodes(_, _)
simulateNodes(st, i) ==
    IF i >= Len(nodes_) THEN st
    ELSE simulateNodes(Set(st, i + nbInputs_ + 1,
                           AndW(getValue(st, nodeA(i)), getValue(st, nodeB(i)))), i + 1)

RECURSIVE simulateInputs(_, _, _)
simulateInputs(st, inputVals, i) ==
    IF i >= nbInputs_ THEN st
    ELSE simulateInputs(Set(st, i + 1, At(inputVals, i)), inputVals, i + 1)

\* the state after simulate(inputVals) called in state st
simulateState(st, inputVals) ==
    simulateNodes(simulateInputs(Set(st, 0, WordZero), inputVals, 0), 0)

simulate(st, inputVals) ==
    LET s == simulateState(st, inputVals)
    IN [state |-> s, ret |-> getOutputValues(s)]

\* toggles[v] after the first loop of simulateWithToggling
togglesOf(toggling) == {variable(toggling[k]) : k \in 1..Len(toggling)}

\* the two assertions of the first loop
togglingAllowed(toggling) ==
    /\ \A k \in 1..Len(toggling) : ~is_constant(toggling[k])
    /\ \A k, m \in 1..Len(toggling) : k # m => variable(toggling[k]) # variable(toggling[m])

toggleMask(toggles, v) == IF v \in toggles THEN WordOnes ELSE WordZero

RECURSIVE toggleInputs(_, _, _, _)
toggleInputs(st, inputVals, toggles, i) ==
    IF i >= nbInputs_ THEN st
    ELSE toggleInputs(Set(st, i + 1, XorW(toggleMask(toggles, i + 1), At(inputVals, i))),
                      inputVals, toggles, i + 1)

RECURSIVE toggleNodes(_, _, _)
toggleNodes(st, toggles, i) ==
    IF i >= Len(nodes_) THEN st
    ELSE toggleNodes(Set(st, i + nbInputs_ + 1,
                         XorW(toggleMask(toggles, i + nbInputs_ + 1),
                              AndW(getValue(st, nodeA(i)), getValue(st, nodeB(i))))),
                     toggles, i + 1)

simulateWithToggling(st, inputVals, toggling) ==
    LET toggles == togglesOf(toggling)
        s == toggleNodes(toggleInputs(st, inputVals, toggles, 0), toggles, 0)
    IN [state |-> s, ret |-> getOutputValues(s)]

----------------------------------------------------------------------------
(* MiniAIG: incremental simulation *)

RECURSIVE setupFanouts(_, _)
setupFanouts(f, node) ==
    IF node >= Len(nodes_) THEN f
    ELSE LET i == node + nbInputs_ + 1
             fa == Set(f, variable(nodeA(node)), Append(At(f, variable(nodeA(node))), i))
             fb == Set(fa, variable(nodeB(node)), Append(At(fa, variable(nodeB(node))), i))
         IN setupFanouts(fb, node + 1)

\* fanouts_ after setupIncremental
setupIncrementalFanouts ==
    setupFanouts([v \in 1..(nbInputs_ + Len(nodes_) + 1) |-> <<>>], 0)

\* a worklist that hands out the largest index first
toVisitTopLargest(q) == CHOOSE i \in q : \A k \in q : i >= k

\* the worklist is a priority queue that hands out the smallest index first
toVisitTop(q) == CHOOSE i \in q : \A k \in q : i <= k

\* the snapshot taken by copyIncrementalState
copyIncrementalStateValue(st) == st

\* the loop over fanouts_[i] of updateState: s is [touched, vars, visit]
RECURSIVE pushFanouts(_, _, _)
pushFanouts(s, fo, k) ==
    IF k > Len(fo) THEN s
    ELSE LET n == fo[k]
         IN IF ~At(s.touched, n)
            THEN pushFanouts([touched |-> Set(s.touched, n, TRUE),
                              vars |-> Append(s.vars, n),
                              visit |-> s.visit \cup {n}], fo, k + 1)
            ELSE pushFanouts(s, fo, k + 1)

\* updateState with the fanouts pushed only when the variable is touched for the first time
updateStateFirstTouchOnly(s, i, value) ==
    LET first == ~At(s.touched, i)
        t == IF first
             THEN [touched |-> Set(s.touched, i, TRUE), vars |-> Append(s.vars, i)]
             ELSE [touched |-> s.touched, vars |-> s.vars]
    IN IF At(s.state, i) = value
       THEN [state |-> s.state, touched |-> t.touched, vars |-> t.vars, visit |-> s.visit]
       ELSE LET p == IF first
                     THEN pushFanouts([touched |-> t.touched, vars |-> t.vars,
                                       visit |-> s.visit], At(fanouts_, i), 1)
                     ELSE [touched |-> t.touched, vars |-> t.vars, visit |-> s.visit]
            IN [state |-> Set(s.state, i, value), touched |-> p.touched,
                vars |-> p.vars, visit |-> p.visit]

\* updateState(i, value) on s = [state, touched, vars, visit]
updateState(s, i, value) ==
    LET t == IF ~At(s.touched, i)
             THEN [touched |-> Set(s.touched, i, TRUE), vars |-> Append(s.vars, i)]
             ELSE [touched |-> s.touched, vars |-> s.vars]
    IN IF At(s.state, i) = value
       THEN [state |-> s.state, touched |-> t.touched, vars |-> t.vars, visit |-> s.visit]
       ELSE LET p == pushFanouts([touched |-> t.touched, vars |-> t.vars,
                                  visit |-> s.visit], At(fanouts_, i), 1)
            IN [state |-> Set(s.state, i, value), touched |-> p.touched,
                vars |-> p.vars, visit |-> p.visit]

\* resetIncrementalState on [state, touched, vars]
RECURSIVE resetTouched(_, _, _)
resetTouched(s, saved, k) ==
    IF k > Len(s.vars) THEN [state |-> s.state, touched |-> s.touched, vars |-> <<>>]
    ELSE LET i == s.vars[k]
         IN resetTouched([state |-> Set(s.state, i, At(saved, i)),
                          touched |-> Set(s.touched, i, FALSE),
                          vars |-> s.vars], saved, k + 1)

\* resetIncrementalState that clears the marks and forgets to restore the values
resetIncrementalStateNoRestore(s, saved) ==
    [state |-> s.state, touched |-> [v \in 1..Len(s.touched) |-> FALSE], vars |-> <<>>]

resetIncrementalState(s, saved) == resetTouched(s, saved, 1)

\* the worklist loop of simulateIncremental
RECURSIVE simulateIncrementalLoop(_)
simulateIncrementalLoop(s) ==
    IF s.visit = {} THEN s
    ELSE LET i == toVisitTop(s.visit)
             node == i - nbInputs_ - 1
         IN simulateIncrementalLoop(
                updateState([s EXCEPT !.visit = @ \ {i}], i,
                            AndW(getValue(s.state, nodeA(node)), getValue(s.state, nodeB(node)))))

\* simulateIncremental(toggling) as one call on s = [state, touched, vars, visit]
simulateIncremental(s, saved, toggling) ==
    LET v == variable(toggling)
        e == simulateIncrementalLoop(updateState(s, v, NotW(At(s.state, v))))
        r == resetIncrementalState(e, saved)
    IN [state |-> r.state, touched |-> r.touched, vars |-> r.vars, visit |-> e.visit,
        ret |-> getOutputValues(e.state)]

----------------------------------------------------------------------------
(* Adapter: SatAttack::toAigInputs, callDesign, callOracle *)

getKeyPortWidth == Cardinality({k \in 1..Len(comb_inputs_) : comb_inputs_[k].key})
nbKeyBits == getKeyPortWidth
nbInputs == Len(comb_inputs_) - nbKeyBits
nbOutputs == Len(outputs_)

BoolVectors(n) == [1..n -> BOOLEAN]
InputVectors == BoolVectors(nbInputs)
KeyVectors == BoolVectors(nbKeyBits)

\* the loop of toAigInputs: acc is the vector built so far, inputInd the running index
RECURSIVE toAigInputsLoop(_, _, _, _, _)
toAigInputsLoop(inputs, key, k, inputInd, acc) ==
    IF k > Len(comb_inputs_) THEN acc
    ELSE IF comb_inputs_[k].key
         THEN toAigInputsLoop(inputs, key, k + 1, inputInd,
                              Append(acc, At(key, comb_inputs_[k].offset)))
         ELSE toAigInputsLoop(inputs, key, k + 1, inputInd + 1,
                              Append(acc, At(inputs, inputInd)))

toAigInputs(inputs, key) == toAigInputsLoop(inputs, key, 1, 0, <<>>)

\* LogicLockingAnalyzer::compute_output_value(const std::vector<bool> &)
compute_output_value(st, inputs) ==
    LET i64_in == [k \in 1..Len(inputs) |-> IF inputs[k] THEN WordOnes ELSE WordZero]
        res == simulate(st, i64_in)
    IN [state |-> res.state,
        ret |-> [j \in 1..nbOutputs |-> res.ret[j] # WordZero]]

callDesign(st, inputs, key) == compute_output_value(st, toAigInputs(inputs, key))
callOracle(st, inputs) == callDesign(st, inputs, expectedKey_)

\* the test vectors whose index is not the index of an output: no_toggle[i] is read past
\* the end of no_toggle for them
pastTheEnd(tvs) == {i \in 0..(Len(tvs) - 1) : i >= Len(outputs_)}

\* the words such reads can give, one for each read
PastTheEndReads(tvs) == [pastTheEnd(tvs) -> [0..(Len(outputs_) - 1) -> Word]]

\* the loop over the test vectors of LogicLockingAnalyzer::compute_output_value():
\* it pushes no_toggle[i] on every ret[j]
RECURSIVE compute_output_value_loop(_, _, _, _, _)
compute_output_value_loop(st, tvs, ret, reads, i) ==
    IF i >= Len(tvs) THEN [state |-> st, ret |-> ret]
    ELSE LET no_toggle == simulate(st, At(tvs, i))
         IN compute_output_value_loop(
                no_toggle.state, tvs,
                [j \in 1..Len(outputs_) |->
                    Append(ret[j], IF i < Len(no_toggle.ret) THEN At(no_toggle.ret, i)
                                   ELSE reads[i][j - 1])],
                reads, i + 1)

\* LogicLockingAnalyzer::compute_output_value(), ret[j] being the row of output j
compute_output_value_all(st, tvs, reads) ==
    compute_output_value_loop(st, tvs, [j \in 1..Len(outputs_) |-> <<>>], reads, 0)

----------------------------------------------------------------------------
(* Translation of the AIG to SAT: aigToSat, extractOutputs *)

\* A solver literal is modelled by its value under the valuation the solver returns:
\* a pinned literal is CONST_TRUE / CONST_FALSE, a free literal takes either value.
CONST_TRUE == TRUE
CONST_FALSE == FALSE
boolVectorToSat(v) == [k \in 1..Len(v) |-> IF v[k] THEN CONST_TRUE ELSE CONST_FALSE]
satNOT(x) == ~x
satAND(x, y) == x /\ y

\* aigToSat, first loop: the literals of the AIG inputs
RECURSIVE aigToSatInputs(_, _, _, _, _)
aigToSatInputs(inputLits, keyLits, k, inputInd, aigLits) ==
    IF k > Len(comb_inputs_) THEN aigLits
    ELSE IF comb_inputs_[k].key
         THEN aigToSatInputs(inputLits, keyLits, k + 1, inputInd,
                             Append(aigLits, At(keyLits, comb_inputs_[k].offset)))
         ELSE aigToSatInputs(inputLits, keyLits, k + 1, inputInd + 1,
                             Append(aigLits, At(inputLits, inputInd)))

\* the gate loop with the polarity of the second fanin dropped
RECURSIVE aigToSatNodesNoPolarityB(_, _)
aigToSatNodesNoPolarityB(aigLits, j) ==
    IF j >= Len(nodes_) THEN aigLits
    ELSE LET nA == nodeA(j)
             nB == nodeB(j)
             aLit == IF polarity(nA) THEN satNOT(At(aigLits, variable(nA)))
                     ELSE At(aigLits, variable(nA))
             bLit == At(aigLits, variable(nB))
         IN aigToSatNodesNoPolarityB(Append(aigLits, satAND(aLit, bLit)), j + 1)

\* aigToSat, second loop: one AND per gate
RECURSIVE aigToSatNodes(_, _)
aigToSatNodes(aigLits, j) ==
    IF j >= Len(nodes_) THEN aigLits
    ELSE LET nA == nodeA(j)
             nB == nodeB(j)
             aLit == IF polarity(nA) THEN satNOT(At(aigLits, variable(nA)))
                     ELSE At(aigLits, variable(nA))
             bLit == IF polarity(nB) THEN satNOT(At(aigLits, variable(nB)))
                     ELSE At(aigLits, variable(nB))
         IN aigToSatNodes(Append(aigLits, satAND(aLit, bLit)), j + 1)

\* the value of every literal aigToSat returns, under the valuation that gives
\* inputLits and keyLits these values
aigToSat(inputLits, keyLits) ==
    aigToSatNodes(aigToSatInputs(inputLits, keyLits, 1, 0, <<CONST_FALSE>>), 0)

\* extractOutputs without the negation of the outputs of odd polarity
extractOutputsNoPolarity(aigLits) ==
    [j \in 1..Len(outputs_) |-> At(aigLits, variable(outputs_[j]))]

\* extractOutputs: the literal of each output of the AIG
extractOutputs(aigLits) ==
    [j \in 1..Len(outputs_) |->
        IF polarity(outputs_[j]) THEN satNOT(At(aigLits, variable(outputs_[j])))
        ELSE At(aigLits, variable(outputs_[j]))]

\* The clauses behind the literals of aigToSat, as a constraint on a valuation v of the
\* literals it returns: the first is CONST_FALSE, an input literal is the literal it
\* was given, a gate literal is the AND of its two (possibly negated) fanin literals.
aigToSatClauses(v, inputLits, keyLits) ==
    LET ins == aigToSatInputs(inputLits, keyLits, 1, 0, <<CONST_FALSE>>)
        lit(l) == IF polarity(l) THEN satNOT(At(v, variable(l))) ELSE At(v, variable(l))
    IN /\ Len(v) = Len(ins) + Len(nodes_)
       /\ \A k \in 1..Len(ins) : v[k] = ins[k]
       /\ \A j \in 0..(Len(nodes_) - 1) :
              At(v, j + nbInputs_ + 1) = satAND(lit(nodeA(j)), lit(nodeB(j)))

----------------------------------------------------------------------------
(* Circuits given to the engine *)

newAig(n) == [nbInputs |-> n, nodes |-> <<>>]
\* addAnd that reads nodes_.size() after the emplace_back
addAndCountsAfterPush(g, a, b) ==
    [g |-> [g EXCEPT !.nodes = Append(@, <<a, b>>)],
     lit |-> 2 * (Len(g.nodes) + 1 + g.nbInputs + 1)]
addAnd(g, a, b) ==
    [g |-> [g EXCEPT !.nodes = Append(@, <<a, b>>)],
     lit |-> 2 * (Len(g.nodes) + g.nbInputs + 1)]
addNor(g, a, b) == addAnd(g, inv(a), inv(b))
addOr(g, a, b) == LET r == addNor(g, a, b) IN [g |-> r.g, lit |-> inv(r.lit)]
addXor(g, a, b) ==
    LET p == addAnd(g, a, inv(b))
        q == addAnd(p.g, inv(a), b)
    IN addOr(q.g, p.lit, q.lit)
addBuffer(g, a) == addAnd(g, a, a)
addNot(g, a) == addAnd(g, a, a)
addNand(g, a, b) == LET r == addAnd(g, a, b) IN [g |-> r.g, lit |-> inv(r.lit)]
addXnor(g, a, b) == LET r == addXor(g, a, b) IN [g |-> r.g, lit |-> inv(r.lit)]
addMux(g, sel, a, b) ==
    LET p == addAnd(g, inv(sel), a)
        q == addAnd(p.g, sel, b)
    IN addOr(q.g, p.lit, q.lit)
\* addXor and addMux when the compiler evaluates the second argument of addOr first
addXorSecondFirst(g, a, b) ==
    LET q == addAnd(g, inv(a), b)
        p == addAnd(q.g, a, inv(b))
    IN addOr(p.g, p.lit, q.lit)
addMuxSecondFirst(g, sel, a, b) ==
    LET q == addAnd(g, sel, b)
        p == addAnd(q.g, inv(sel), a)
    IN addOr(p.g, p.lit, q.lit)

PrimaryInput == [key |-> FALSE, offset |-> 0]
KeyInput(offset) == [key |-> TRUE, offset |-> offset]

\* an AND gate XORed with key bit 0 and a buffer XORed with key bit 1
ToyCircuit ==
    LET g0 == newAig(4)
        a == addAnd(g0, getInput(0), getInput(2))
        x0 == addXor(a.g, a.lit, getInput(3))
        b == addBuffer(x0.g, getInput(2))
        x1 == addXor(b.g, b.lit, getInput(1))
    IN [nbInputs |-> 4, nodes |-> x1.g.nodes, outputs |-> <<x0.lit, x1.lit>>,
        comb |-> <<PrimaryInput, KeyInput(1), PrimaryInput, KeyInput(0)>>]

\* i AND (k0 OR k1), and the inverted input: three keys are equivalent
OrKeyCircuit ==
    LET g0 == newAig(3)
        o == addOr(g0, getInput(0), getInput(2))
        a == addAnd(o.g, getInput(1), o.lit)
    IN [nbInputs |-> 3, nodes |-> a.g.nodes, outputs |-> <<a.lit, inv(getInput(1))>>,
        comb |-> <<KeyInput(0), PrimaryInput, KeyInput(1)>>]

\* i XOR k
XorKeyCircuit ==
    LET g0 == newAig(2)
        x == addXor(g0, getInput(0), getInput(1))
    IN [nbInputs |-> 2, nodes |-> x.g.nodes, outputs |-> <<x.lit>>,
        comb |-> <<PrimaryInput, KeyInput(0)>>]

\* i ? k0 : k1, each input value reveals one key bit
MuxKeyCircuit ==
    LET g0 == newAig(3)
        p == addAnd(g0, getInput(1), getInput(0))
        q == addAnd(p.g, inv(getInput(1)), getInput(2))
        o == addOr(q.g, p.lit, q.lit)
    IN [nbInputs |-> 3, nodes |-> o.g.nodes, outputs |-> <<o.lit>>,
        comb |-> <<KeyInput(0), PrimaryInput, KeyInput(1)>>]

\* reconvergent fanout with a node that is constant zero and a buffer
ReconvCircuit ==
    LET g0 == newAig(2)
        n0 == addAnd(g0, getInput(0), inv(getInput(1)))
        n1 == addAnd(n0.g, n0.lit, getInput(0))
        n2 == addAnd(n1.g, inv(n0.lit), n1.lit)
        n3 == addBuffer(n2.g, n2.lit)
        n4 == addAnd(n3.g, inv(n3.lit), n1.lit)
    IN [nbInputs |-> 2, nodes |-> n4.g.nodes, outputs |-> <<n4.lit, inv(n1.lit), n3.lit>>,
        comb |-> <<KeyInput(0), PrimaryInput>>]

\* i0 AND i1 with a key bit that reaches no output
DeadKeyCircuit ==
    LET g0 == newAig(3)
        a == addAnd(g0, getInput(0), getInput(1))
    IN [nbInputs |-> 3, nodes |-> a.g.nodes, outputs |-> <<a.lit>>,
        comb |-> <<PrimaryInput, PrimaryInput, KeyInput(0)>>]

\* every AIG with one input and at most EnumNodes nodes that is topologically sorted
RECURSIVE EnumNodeSeqs(_)
EnumNodeSeqs(n) ==
    IF n = 0 THEN {<<>>}
    ELSE EnumNodeSeqs(n - 1) \cup
         {Append(s, <<a, b>>) : s \in {t \in EnumNodeSeqs(n - 1) : Len(t) = n - 1},
                                a \in 0..(2 * (n + 1) - 1), b \in 0..(2 * (n + 1) - 1)}

EnumCircuits ==
    {[nbInputs |-> 1, nodes |-> s,
      outputs |-> [j \in 1..(Len(s) + 2) |->
                      IF j <= Len(s) + 1 THEN 2 * j ELSE 2 * (Len(s) + 1) + 1],
      comb |-> <<PrimaryInput>>] : s \in EnumNodeSeqs(EnumNodes)}

AigCircuits == {XorKeyCircuit, ReconvCircuit} \cup EnumCircuits
DesignCircuits == {XorKeyCircuit, OrKeyCircuit}
AttackCircuits == {XorKeyCircuit, MuxKeyCircuit, DeadKeyCircuit}

----------------------------------------------------------------------------
(* Construction *)

\* record of the last call: op, its arguments, its result, and the inputs of the last simulate
\* before is the kind of the call before it, count the probes since the last snapshot
\* visited lists the nodes the current probe took from the worklist, in the order it took them
NoProbe == [op |-> "none", inputs |-> <<>>, key |-> <<>>, toggling |-> <<>>,
            ret |-> <<>>, baseline |-> <<>>, before |-> "none", count |-> 0,
            visited |-> <<>>]

\* the AIG right after LogicLockingAnalyzer built it for circuit c
InitAig(c) ==
    /\ nbInputs_ = c.nbInputs
    /\ nodes_ = c.nodes
    /\ outputs_ = c.outputs
    /\ comb_inputs_ = c.comb
    /\ state_ = [v \in 1..(c.nbInputs + Len(c.nodes) + 1) |-> WordZero]
    /\ savedState_ = <<>>
    /\ fanouts_ = setupIncrementalFanouts
    /\ handedOut = 0..(2 * (c.nbInputs + Len(c.nodes) + 1) - 1)
    /\ test_vectors_ = <<>>
    /\ isTouched_ = [v \in 1..(c.nbInputs + Len(c.nodes) + 1) |-> FALSE]
    /\ touchedVars_ = <<>>
    /\ toVisit_ = {}
    /\ aigPc = "built"
    /\ probe = NoProbe

\* no call of the constructor is on record
NoCtor == [key |-> <<>>, portFound |-> TRUE, warned |-> FALSE]

\* no call of tryAddSolution is on record
\* sizeBefore is the size of the front when the call was made
NoAdd == [sol |-> <<>>, obj |-> <<>>, ret |-> FALSE, called |-> FALSE, sizeBefore |-> 0]

\* the optimizer right after its construction
NoOptimizer == paretoFront_ = <<>> /\ lastAdd = NoAdd

NoAttack ==
    /\ NoOptimizer
    /\ ctor = NoCtor
    /\ expectedKey_ = <<>>
    /\ testInputs_ = <<>>
    /\ testOutputs_ = <<>>
    /\ bestKey_ = <<>>
    /\ keyFound_ = FALSE
    /\ pc = "idle"
    /\ params = [mode |-> "none"]
    /\ queryCount = 0
    /\ settleCount = 0
    /\ di = [found |-> FALSE]
    /\ meas = [done |-> FALSE, streak |-> 0]

----------------------------------------------------------------------------
(* Simulation calls on the structural model *)

WordVectors == [1..nbInputs_ -> Word]
Lits == 0..(2 * Len(state_) - 1)

Simulate(inputVals) ==
    /\ aigPc # "probing"
    /\ state_' = simulate(state_, inputVals).state
    /\ probe' = [NoProbe EXCEPT !.op = "simulate", !.baseline = inputVals]
    /\ aigPc' = "simulated"
    /\ UNCHANGED <<optVars, aigStruct, aigIncr, satVars>>

\* the toggle lists handed to simulateWithToggling: only the set of their variables matters
\* to the result, so the lists are taken by ascending variable
TogglingLists ==
    {t \in UNION {[1..n -> Lits] : n \in 0..MaxToggles} :
        \A k \in 1..(Len(t) - 1) : variable(t[k]) < variable(t[k + 1])}

SimulateWithToggling(inputVals, toggling) ==
    /\ aigPc # "probing"
    /\ togglingAllowed(toggling)
    /\ state_' = simulateWithToggling(state_, inputVals, toggling).state
    /\ probe' = [NoProbe EXCEPT !.op = "toggling"]
    /\ aigPc' = "toggled"
    /\ UNCHANGED <<optVars, aigStruct, aigIncr, satVars>>

\* compute_output_corruption_data_per_signal snapshots right after simulate
CopyIncrementalState ==
    /\ aigPc = "simulated"
    /\ savedState_' = copyIncrementalStateValue(state_)
    /\ aigPc' = "snapshot"
    /\ probe' = [probe EXCEPT !.count = 0]
    /\ UNCHANGED <<optVars, aigStruct, state_, isTouched_, touchedVars_, toVisit_, satVars>>

incrState == [state |-> state_, touched |-> isTouched_, vars |-> touchedVars_,
              visit |-> toVisit_]

\* simulateIncremental, first statement: toggle the variable
SimulateIncrementalBegin(toggling) ==
    /\ aigPc \in {"snapshot", "probed"}
    /\ LET v == variable(toggling)
           s == updateState(incrState, v, NotW(At(state_, v)))
       IN /\ state_' = s.state
          /\ isTouched_' = s.touched
          /\ touchedVars_' = s.vars
          /\ toVisit_' = s.visit
    /\ probe' = [NoProbe EXCEPT !.op = "incremental", !.toggling = <<toggling>>,
                                !.baseline = probe.baseline,
                                !.count = IF probe.count < MaxProbeCount
                                          THEN probe.count + 1 ELSE probe.count]
    /\ aigPc' = "probing"
    /\ UNCHANGED <<optVars, aigStruct, savedState_, satVars>>

\* simulateIncremental, one iteration of the worklist loop
SimulateIncrementalStep ==
    /\ aigPc = "probing"
    /\ toVisit_ # {}
    /\ LET i == toVisitTop(toVisit_)
           node == i - nbInputs_ - 1
           popped == [incrState EXCEPT !.visit = @ \ {i}]
           s == updateState(popped, i,
                            AndW(getValue(state_, nodeA(node)), getValue(state_, nodeB(node))))
       IN /\ node >= 0 /\ node < Len(nodes_)
          /\ state_' = s.state
          /\ isTouched_' = s.touched
          /\ touchedVars_' = s.vars
          /\ toVisit_' = s.visit
          /\ probe' = [probe EXCEPT !.visited = Append(@, i)]
    /\ UNCHANGED <<optVars, aigStruct, savedState_, aigPc, satVars>>

\* simulateIncremental, after the loop: read the outputs and reset
SimulateIncrementalEnd ==
    /\ aigPc = "probing"
    /\ toVisit_ = {}
    /\ LET r == resetIncrementalState(incrState, savedState_)
       IN /\ state_' = r.state
          /\ isTouched_' = r.touched
          /\ touchedVars_' = r.vars
    /\ probe' = [probe EXCEPT !.ret = getOutputValues(state_)]
    /\ aigPc' = "probed"
    /\ UNCHANGED <<optVars, aigStruct, savedState_, toVisit_, satVars>>

\* SatAttack::callDesign on the shared model
CallDesign(inputs, key) ==
    /\ aigPc # "probing"
    /\ state_' = callDesign(state_, inputs, key).state
    /\ probe' = [NoProbe EXCEPT !.op = "callDesign", !.inputs = inputs, !.key = key,
                              !.before = probe.op,
                              !.baseline = [k \in 1..nbInputs_ |->
                                  IF toAigInputs(inputs, key)[k] THEN WordOnes ELSE WordZero],
                              !.ret = callDesign(state_, inputs, key).ret]
    /\ aigPc' = "simulated"
    /\ UNCHANGED <<optVars, aigStruct, aigIncr, satVars>>

\* the incremental-simulation protocol of compute_output_corruption_data_per_signal,
\* on every small AIG and every word assignment
InitAigSpec ==
    /\ \E c \in AigCircuits : InitAig(c)
    /\ NoAttack

NextAig ==
    \/ \E inputVals \in WordVectors : Simulate(inputVals)
    \/ CopyIncrementalState
    \/ \E toggling \in Lits : SimulateIncrementalBegin(toggling)
    \/ SimulateIncrementalStep
    \/ SimulateIncrementalEnd

SpecAig == InitAigSpec /\ [][NextAig]_vars

\* the structural model owned by a SatAttack: every simulation input is a vector of
\* booleans widened to words as compute_output_value does
BroadcastVectors ==
    {[k \in 1..nbInputs_ |-> IF b[k] THEN WordOnes ELSE WordZero] : b \in BoolVectors(nbInputs_)}

InitDesignSpec ==
    /\ \E c \in DesignCircuits : InitAig(c)
    /\ NoAttack

NextDesign ==
    \/ \E inputVals \in BroadcastVectors : Simulate(inputVals)
    \/ \E inputVals \in BroadcastVectors, toggling \in TogglingLists :
           SimulateWithToggling(inputVals, toggling)
    \/ CopyIncrementalState
    \/ \E toggling \in Lits : SimulateIncrementalBegin(toggling)
    \/ SimulateIncrementalStep
    \/ SimulateIncrementalEnd
    \/ \E inputs \in InputVectors, key \in KeyVectors : CallDesign(inputs, key)

SpecDesign == InitDesignSpec /\ [][NextDesign]_vars

\* LogicLockingAnalyzer::gen_test_vectors: the vectors are replaced by nb drawn ones
GenTestVectors(tvs) ==
    /\ aigPc # "probing"
    /\ test_vectors_' = tvs
    /\ probe' = [NoProbe EXCEPT !.op = "gen_test_vectors"]
    /\ UNCHANGED <<optVars, nbInputs_, nodes_, outputs_, fanouts_, handedOut, comb_inputs_, state_,
                   aigIncr, aigPc, satVars>>

\* LogicLockingAnalyzer::compute_output_value()
ComputeOutputValue ==
    /\ aigPc # "probing"
    /\ \E reads \in PastTheEndReads(test_vectors_) :
           LET r == compute_output_value_all(state_, test_vectors_, reads)
           IN /\ state_' = r.state
              /\ probe' = [NoProbe EXCEPT !.op = "compute_output_value", !.ret = r.ret]
    /\ aigPc' = "simulated"
    /\ UNCHANGED <<optVars, aigStruct, aigIncr, satVars>>

\* the sequences of at most n test vectors
RECURSIVE TestVectorSeqs(_)
TestVectorSeqs(n) ==
    IF n = 0 THEN {<<>>}
    ELSE TestVectorSeqs(n - 1) \cup
         {Append(s, v) : s \in {t \in TestVectorSeqs(n - 1) : Len(t) = n - 1},
                         v \in WordVectors}

\* circuits with fewer and with more outputs than test vectors
AnalyzerCircuits == {XorKeyCircuit, ReconvCircuit}

InitAnalyzer ==
    /\ \E c \in AnalyzerCircuits : InitAig(c)
    /\ NoAttack

NextAnalyzer ==
    \/ \E tvs \in TestVectorSeqs(MaxTestVectors) : GenTestVectors(tvs)
    \/ ComputeOutputValue

SpecAnalyzer == InitAnalyzer /\ [][NextAnalyzer]_vars

----------------------------------------------------------------------------
(* SatAttack: the constraint store and the solver queries *)

nbTestVectors == Len(testInputs_)

\* addTestVector that queries the oracle and stores nothing
addTestVectorDropsVector(s, inputs) ==
    LET r == callOracle(s.state, inputs)
    IN [state |-> r.state, tin |-> s.tin, tout |-> s.tout]

\* addTestVector on s = [state, tin, tout]
\* addTestVector that stores the complement of the outputs of the oracle
addTestVectorInvertedOutputs(s, inputs) ==
    LET r == callOracle(s.state, inputs)
    IN [state |-> r.state, tin |-> Append(s.tin, inputs),
        tout |-> Append(s.tout, [j \in 1..Len(r.ret) |-> ~r.ret[j]])]

addTestVector(s, inputs) ==
    LET r == callOracle(s.state, inputs)
    IN [state |-> r.state, tin |-> Append(s.tin, inputs), tout |-> Append(s.tout, r.ret)]

\* the loop of runPrologue over genTestVector, vectors being the inputs genInputVector draws
RECURSIVE genTestVectors(_, _, _)
genTestVectors(s, vectors, i) ==
    IF i >= Len(vectors) THEN s
    ELSE genTestVectors(addTestVector(s, At(vectors, i)), vectors, i + 1)

\* keyPassesTests with the comparison of the outputs inverted
RECURSIVE keyPassesTestsLoopInverted(_, _, _, _, _)
keyPassesTestsLoopInverted(st, tin, tout, key, i) ==
    IF i >= Len(tin) THEN [state |-> st, ret |-> TRUE]
    ELSE LET r == callDesign(st, At(tin, i), key)
         IN IF r.ret = At(tout, i) THEN [state |-> r.state, ret |-> FALSE]
            ELSE keyPassesTestsLoopInverted(r.state, tin, tout, key, i + 1)

\* keyPassesTests(key) on the store (tin, tout), called in model state st
RECURSIVE keyPassesTestsLoop(_, _, _, _, _)
keyPassesTestsLoop(st, tin, tout, key, i) ==
    IF i >= Len(tin) THEN [state |-> st, ret |-> TRUE]
    ELSE LET r == callDesign(st, At(tin, i), key)
         IN IF r.ret # At(tout, i) THEN [state |-> r.state, ret |-> FALSE]
            ELSE keyPassesTestsLoop(r.state, tin, tout, key, i + 1)

keyPassesTests(st, tin, tout, key) == keyPassesTestsLoop(st, tin, tout, key, 0)

\* forceKeyCorrect that has no model on an empty store
forceKeyCorrectNeedsVector(tin, tout, keyLits) ==
    /\ Len(tin) > 0
    /\ \A i \in 0..(Len(tin) - 1) :
           extractOutputs(aigToSat(boolVectorToSat(At(tin, i)), keyLits))
               = boolVectorToSat(At(tout, i))

\* forceKeyCorrect that encodes the last test vector only
forceKeyCorrectLastOnly(tin, tout, keyLits) ==
    \A i \in (Len(tin) - 1)..(Len(tin) - 1) :
        i >= 0 => extractOutputs(aigToSat(boolVectorToSat(At(tin, i)), keyLits))
                      = boolVectorToSat(At(tout, i))

\* forceKeyCorrect: the constraint it assumes on the valuation of keyLits
forceKeyCorrect(tin, tout, keyLits) ==
    \A i \in 0..(Len(tin) - 1) :
        extractOutputs(aigToSat(boolVectorToSat(At(tin, i)), keyLits))
            = boolVectorToSat(At(tout, i))

\* findNewValidKey: the keys the solver can return
findNewValidKeyModels(tin, tout) ==
    {keyLits \in KeyVectors : forceKeyCorrect(tin, tout, keyLits)}

\* findDIFromBestKey with vec_ne(output2, output2) assumed: the query has no model
findDIFromBestKeyModelsSelfCompare(tin, tout, best) ==
    LET valid == {keyLits \in KeyVectors : forceKeyCorrect(tin, tout, keyLits)}
        output2(inputLits) == extractOutputs(aigToSat(inputLits, boolVectorToSat(best)))
    IN UNION {{keyLits \o inputLits : keyLits \in
                  {k \in valid : output2(inputLits) # output2(inputLits)}}
              : inputLits \in InputVectors}

\* findDIFromBestKey without forceKeyCorrect(sat, keyLits)
findDIFromBestKeyModelsKeyNotForced(tin, tout, best) ==
    LET output2(inputLits) == extractOutputs(aigToSat(inputLits, boolVectorToSat(best)))
    IN UNION {{keyLits \o inputLits : keyLits \in
                  {k \in KeyVectors :
                      extractOutputs(aigToSat(inputLits, k)) # output2(inputLits)}}
              : inputLits \in InputVectors}

\* findDIFromBestKey: the values of the query (keyLits then inputLits) the solver can
\* return: forceKeyCorrect holds of keyLits and vec_ne(output1, output2) is assumed
findDIFromBestKeyModels(tin, tout, best) ==
    LET valid == {keyLits \in KeyVectors : forceKeyCorrect(tin, tout, keyLits)}
        output2(inputLits) == extractOutputs(aigToSat(inputLits, boolVectorToSat(best)))
    IN UNION {{keyLits \o inputLits : keyLits \in
                  {k \in valid : extractOutputs(aigToSat(inputLits, k)) # output2(inputLits)}}
              : inputLits \in InputVectors}

\* findDI without forceKeyCorrect(sat, keyLits2)
findDIModelsOneKeyForced(tin, tout) ==
    LET valid == {keyLits \in KeyVectors : forceKeyCorrect(tin, tout, keyLits)}
    IN UNION {{pair[1] \o pair[2] \o inputLits : pair \in
                  {q \in valid \X KeyVectors :
                      extractOutputs(aigToSat(inputLits, q[1]))
                          # extractOutputs(aigToSat(inputLits, q[2]))}}
              : inputLits \in InputVectors}

\* findDI without forceKeyCorrect on either key
findDIModelsKeysNotForced(tin, tout) ==
    UNION {{pair[1] \o pair[2] \o inputLits : pair \in
               {q \in KeyVectors \X KeyVectors :
                   extractOutputs(aigToSat(inputLits, q[1]))
                       # extractOutputs(aigToSat(inputLits, q[2]))}}
           : inputLits \in InputVectors}

\* findDI: the values of the query (keyLits1, keyLits2, inputLits) the solver can return:
\* forceKeyCorrect holds of keyLits1 and of keyLits2 and vec_ne(output1, output2) is assumed
findDIModels(tin, tout) ==
    LET valid == {keyLits \in KeyVectors : forceKeyCorrect(tin, tout, keyLits)}
    IN UNION {{pair[1] \o pair[2] \o inputLits : pair \in
                  {q \in valid \X valid :
                      extractOutputs(aigToSat(inputLits, q[1]))
                          # extractOutputs(aigToSat(inputLits, q[2]))}}
              : inputLits \in InputVectors}

\* the loop of measureErrorAndConstrain with testOutputs_.push_back(outputs)
RECURSIVE measureLoopStoresDesignOutputs(_, _, _, _)
measureLoopStoresDesignOutputs(s, rand, maxConstraints, i) ==
    IF i >= Len(rand) THEN s
    ELSE LET inputs == At(rand, i)
             expected == callOracle(s.state, inputs)
             outputs == callDesign(expected.state, inputs, bestKey_)
         IN IF outputs.ret # expected.ret
            THEN LET nbErrors == s.nbErrors + 1
                 IN measureLoopStoresDesignOutputs(
                        IF nbErrors <= maxConstraints
                        THEN [state |-> outputs.state, tin |-> Append(s.tin, inputs),
                              tout |-> Append(s.tout, outputs.ret), nbErrors |-> nbErrors]
                        ELSE [s EXCEPT !.state = outputs.state, !.nbErrors = nbErrors],
                        rand, maxConstraints, i + 1)
            ELSE measureLoopStoresDesignOutputs([s EXCEPT !.state = outputs.state], rand,
                                                maxConstraints, i + 1)

\* the loop of measureErrorAndConstrain with the test nbErrors < maxConstraints
RECURSIVE measureLoopStrictCap(_, _, _, _)
measureLoopStrictCap(s, rand, maxConstraints, i) ==
    IF i >= Len(rand) THEN s
    ELSE LET inputs == At(rand, i)
             expected == callOracle(s.state, inputs)
             outputs == callDesign(expected.state, inputs, bestKey_)
         IN IF outputs.ret # expected.ret
            THEN LET nbErrors == s.nbErrors + 1
                 IN measureLoopStrictCap(
                        IF nbErrors < maxConstraints
                        THEN [state |-> outputs.state, tin |-> Append(s.tin, inputs),
                              tout |-> Append(s.tout, expected.ret), nbErrors |-> nbErrors]
                        ELSE [s EXCEPT !.state = outputs.state, !.nbErrors = nbErrors],
                        rand, maxConstraints, i + 1)
            ELSE measureLoopStrictCap([s EXCEPT !.state = outputs.state], rand,
                                      maxConstraints, i + 1)

\* the loop of measureErrorAndConstrain on s = [state, tin, tout, nbErrors]
RECURSIVE measureLoop(_, _, _, _)
measureLoop(s, rand, maxConstraints, i) ==
    IF i >= Len(rand) THEN s
    ELSE LET inputs == At(rand, i)
             expected == callOracle(s.state, inputs)
             outputs == callDesign(expected.state, inputs, bestKey_)
         IN IF outputs.ret # expected.ret
            THEN LET nbErrors == s.nbErrors + 1
                 IN measureLoop(
                        IF nbErrors <= maxConstraints
                        THEN [state |-> outputs.state, tin |-> Append(s.tin, inputs),
                              tout |-> Append(s.tout, expected.ret), nbErrors |-> nbErrors]
                        ELSE [s EXCEPT !.state = outputs.state, !.nbErrors = nbErrors],
                        rand, maxConstraints, i + 1)
            ELSE measureLoop([s EXCEPT !.state = outputs.state], rand, maxConstraints, i + 1)

\* measureErrorAndConstrain(nbRandomVectors, maxConstraints), rand being the inputs drawn;
\* epsilon is the fraction <<numerator, denominator>>
measureErrorAndConstrain(rand, maxConstraints) ==
    LET s == measureLoop([state |-> state_, tin |-> testInputs_, tout |-> testOutputs_,
                          nbErrors |-> 0], rand, maxConstraints, 0)
        nbRandomVectors == Len(rand)
    IN [state |-> s.state, tin |-> s.tin, tout |-> s.tout, nbErrors |-> s.nbErrors,
        epsilon |-> IF nbRandomVectors <= 0 THEN <<0, 1>> ELSE <<s.nbErrors, nbRandomVectors>>]

\* a < b on fractions with positive denominators
FracLess(a, b) == a[1] * b[2] < b[1] * a[2]

----------------------------------------------------------------------------
(* SatAttack: runSat and runAppSat *)

\* errorThreshold as a fraction <<numerator, denominator>>; runAppSat is run with a
\* threshold above zero
ErrorThresholds == {<<1, 2>>, <<1, 1>>}

SatParams == [mode : {"sat"}, nbInitialVectors : 0..MaxInitialVectors]
AppSatParams ==
    [mode : {"appsat"}, nbInitialVectors : 0..MaxInitialVectors,
     errorThreshold : ErrorThresholds, nbDIQueries : 1..MaxDIQueries,
     nbRandomVectors : 0..MaxRandomVectors, settleThreshold : 0..MaxSettleThreshold]

NoDI == [found |-> FALSE]
\* streak: the number of measurement rounds, counted back from the last one, whose error
\* was strictly below the threshold
NoMeas == [done |-> FALSE, streak |-> 0]

\* runSat / runAppSat up to the check of the expected key in runPrologue
\* runPrologue without testInputs_.clear(), testOutputs_.clear() and bestKey_.clear()
RunPrologueKeepsState(p, vectors) ==
    /\ pc = "idle"
    /\ Len(vectors) = p.nbInitialVectors
    /\ params' = p
    /\ LET s == genTestVectors([state |-> state_, tin |-> testInputs_, tout |-> testOutputs_],
                               vectors, 0)
           ok == keyPassesTests(s.state, s.tin, s.tout, expectedKey_)
       IN /\ testInputs_' = s.tin
          /\ testOutputs_' = s.tout
          /\ state_' = ok.state
          /\ IF ok.ret
             THEN /\ keyFound_' = FALSE
                  /\ pc' = "search"
                  /\ UNCHANGED bestKey_
             ELSE /\ pc' = "fatal_expected_key"
                  /\ UNCHANGED <<keyFound_, bestKey_>>
    /\ queryCount' = 0
    /\ settleCount' = 0
    /\ di' = NoDI
    /\ meas' = NoMeas
    /\ UNCHANGED <<optVars, aigStruct, aigIncr, aigPc, probe, ctorVars>>

RunPrologue(p, vectors) ==
    /\ pc = "idle"
    /\ Len(vectors) = p.nbInitialVectors
    /\ params' = p
    /\ LET s == genTestVectors([state |-> state_, tin |-> <<>>, tout |-> <<>>], vectors, 0)
           ok == keyPassesTests(s.state, s.tin, s.tout, expectedKey_)
       IN /\ testInputs_' = s.tin
          /\ testOutputs_' = s.tout
          /\ state_' = ok.state
          /\ IF ok.ret
             THEN /\ keyFound_' = FALSE
                  /\ bestKey_' = <<>>
                  /\ pc' = "search"
             ELSE /\ pc' = "fatal_expected_key"
                  /\ UNCHANGED <<keyFound_, bestKey_>>
    /\ queryCount' = 0
    /\ settleCount' = 0
    /\ di' = NoDI
    /\ meas' = NoMeas
    /\ UNCHANGED <<optVars, aigStruct, aigIncr, aigPc, probe, ctorVars>>

\* findNewValidKey(bestKey_), in runPrologue and in the loop of runSat
FindNewValidKey ==
    /\ pc = "search"
    /\ LET models == findNewValidKeyModels(testInputs_, testOutputs_)
       IN \/ \E key \in models :
                 /\ bestKey_' = key
                 /\ pc' = "di"
          \/ /\ models = {}
             /\ bestKey_' = <<>>
             /\ pc' = "done_nokey"
    /\ UNCHANGED <<optVars, aigVars, ctorVars, testInputs_, testOutputs_, keyFound_, params,
                   queryCount, settleCount, di, meas>>

\* the solver gives up on the time limit and the query returns false as if it had no
\* model (no test of solverTimoutStatus)
SolverTimeoutReturnsFalse ==
    /\ pc \in {"search", "di"}
    /\ IF pc = "search"
       THEN /\ bestKey_' = <<>>
            /\ pc' = "done_nokey"
            /\ UNCHANGED keyFound_
       ELSE /\ keyFound_' = TRUE
            /\ pc' = IF params.mode = "sat" THEN "revalidate" ELSE "done_success"
            /\ UNCHANGED bestKey_
    /\ UNCHANGED <<optVars, aigVars, ctorVars, testInputs_, testOutputs_, params, queryCount,
                   settleCount, di, meas>>

\* the solver gives up on the time limit: log_cmd_error leaves the run
SolverTimeout ==
    /\ pc \in {"search", "di"}
    /\ pc' = "timeout"
    /\ UNCHANGED <<optVars, aigVars, ctorVars, testInputs_, testOutputs_, bestKey_, keyFound_,
                   params, queryCount, settleCount, di, meas>>

\* findDIFromBestKey that writes the key it finds into bestKey_
FindDIFromBestKeyAdoptsKey ==
    /\ pc = "di"
    /\ params.mode = "sat"
    /\ Len(bestKey_) = nbKeyBits
    /\ LET models == findDIFromBestKeyModels(testInputs_, testOutputs_, bestKey_)
       IN \/ \E res \in models :
                 /\ di' = [found |-> TRUE, key |-> SubSeq(res, 1, nbKeyBits),
                           inputs |-> SubSeq(res, nbKeyBits + 1, Len(res))]
                 /\ bestKey_' = SubSeq(res, 1, nbKeyBits)
                 /\ pc' = "refine"
                 /\ UNCHANGED keyFound_
          \/ /\ models = {}
             /\ di' = NoDI
             /\ keyFound_' = TRUE
             /\ pc' = "revalidate"
             /\ UNCHANGED bestKey_
    /\ meas' = NoMeas
    /\ UNCHANGED <<optVars, aigVars, ctorVars, testInputs_, testOutputs_, params,
                   queryCount, settleCount>>

\* runSat: findDIFromBestKey(candidateInputs, candidateKey)
FindDIFromBestKey ==
    /\ pc = "di"
    /\ params.mode = "sat"
    /\ Len(bestKey_) = nbKeyBits
    /\ LET models == findDIFromBestKeyModels(testInputs_, testOutputs_, bestKey_)
       IN \/ \E res \in models :
                 /\ di' = [found |-> TRUE, key |-> SubSeq(res, 1, nbKeyBits),
                           inputs |-> SubSeq(res, nbKeyBits + 1, Len(res))]
                 /\ pc' = "refine"
                 /\ UNCHANGED keyFound_
          \/ /\ models = {}
             /\ di' = NoDI
             /\ keyFound_' = TRUE
             /\ pc' = "revalidate"
    /\ meas' = NoMeas
    /\ UNCHANGED <<optVars, aigVars, ctorVars, testInputs_, testOutputs_, bestKey_, params,
                   queryCount, settleCount>>

\* runSat going from addTestVector(candidateInputs) to the next findDIFromBestKey with
\* the key it has
SatRefineSkipsSearch ==
    /\ pc = "refine"
    /\ params.mode = "sat"
    /\ LET s == addTestVector([state |-> state_, tin |-> testInputs_, tout |-> testOutputs_],
                              di.inputs)
       IN /\ state_' = s.state
          /\ testInputs_' = s.tin
          /\ testOutputs_' = s.tout
    /\ queryCount' = queryCount + 1
    /\ di' = NoDI
    /\ pc' = "di"
    /\ UNCHANGED <<optVars, aigStruct, aigIncr, aigPc, probe, ctorVars, bestKey_, keyFound_,
                   params, settleCount, meas>>

\* runSat: ++i; addTestVector(candidateInputs)
SatRefine ==
    /\ pc = "refine"
    /\ params.mode = "sat"
    /\ LET s == addTestVector([state |-> state_, tin |-> testInputs_, tout |-> testOutputs_],
                              di.inputs)
       IN /\ state_' = s.state
          /\ testInputs_' = s.tin
          /\ testOutputs_' = s.tout
    /\ queryCount' = queryCount + 1
    /\ di' = NoDI
    /\ pc' = "search"
    /\ UNCHANGED <<optVars, aigStruct, aigIncr, aigPc, probe, ctorVars, bestKey_, keyFound_,
                   params, settleCount, meas>>

\* runSat after the loop: keyPassesTests(bestKey_) when a key was found
SatRevalidate ==
    /\ pc = "revalidate"
    /\ LET ok == keyPassesTests(state_, testInputs_, testOutputs_, bestKey_)
       IN /\ state_' = ok.state
          /\ pc' = IF ok.ret THEN "done_success" ELSE "fatal_revalidate"
    /\ UNCHANGED <<optVars, aigStruct, aigIncr, aigPc, probe, ctorVars, testInputs_, testOutputs_,
                   bestKey_, keyFound_, params, queryCount, settleCount, di, meas>>

\* runAppSat: findDI(inputs, key1, key2)
FindDI ==
    /\ pc = "di"
    /\ params.mode = "appsat"
    /\ Len(bestKey_) = nbKeyBits
    /\ LET models == findDIModels(testInputs_, testOutputs_)
       IN \/ \E res \in models :
                 /\ di' = [found |-> TRUE, key1 |-> SubSeq(res, 1, nbKeyBits),
                           key2 |-> SubSeq(res, nbKeyBits + 1, 2 * nbKeyBits),
                           inputs |-> SubSeq(res, 2 * nbKeyBits + 1, Len(res))]
                 /\ pc' = "refine"
                 /\ UNCHANGED keyFound_
          \/ /\ models = {}
             /\ di' = NoDI
             /\ keyFound_' = TRUE
             /\ pc' = "done_success"
    /\ meas' = [NoMeas EXCEPT !.streak = meas.streak]
    /\ UNCHANGED <<optVars, aigVars, ctorVars, testInputs_, testOutputs_, bestKey_, params,
                   queryCount, settleCount>>

\* the test of the cadence made on the count before its increment
cadenceSkipsBeforeIncrement(count, nbDIQueries) == (count - 1) % nbDIQueries # 0
\* runAppSat: queryCount % nbDIQueries != 0, on which the round goes on without a measurement
cadenceSkips(count, nbDIQueries) == count % nbDIQueries # 0

\* runAppSat: bestKey_ = key1; addTestVector(inputs); ++queryCount; the test of the cadence
AppSatRefine ==
    /\ pc = "refine"
    /\ params.mode = "appsat"
    /\ bestKey_' = di.key1
    /\ LET s == addTestVector([state |-> state_, tin |-> testInputs_, tout |-> testOutputs_],
                              di.inputs)
       IN /\ state_' = s.state
          /\ testInputs_' = s.tin
          /\ testOutputs_' = s.tout
    /\ queryCount' = queryCount + 1
    /\ di' = NoDI
    /\ pc' = IF cadenceSkips(queryCount + 1, params.nbDIQueries) THEN "di" ELSE "measure"
    /\ UNCHANGED <<optVars, aigStruct, aigIncr, aigPc, probe, ctorVars, keyFound_, params,
                   settleCount, meas>>

\* the settle counter when the measured error is at or above the threshold, left as it is
settleCountOnFailureKept(count) == count
\* the settle counter when the measured error is at or above the threshold
settleCountOnFailure(count) == 0

\* runAppSat: measureErrorAndConstrain(nbRandomVectors, nbTestVectors()) and the settling
AppSatMeasure(rand) ==
    /\ pc = "measure"
    /\ Len(rand) = params.nbRandomVectors
    /\ Len(bestKey_) = nbKeyBits
    /\ LET m == measureErrorAndConstrain(rand, nbTestVectors)
           below == FracLess(m.epsilon, params.errorThreshold)
       IN /\ state_' = m.state
          /\ testInputs_' = m.tin
          /\ testOutputs_' = m.tout
          /\ meas' = [done |-> TRUE, rand |-> rand, maxConstraints |-> nbTestVectors,
                      nbErrors |-> m.nbErrors, epsilon |-> m.epsilon,
                      streak |-> IF below THEN meas.streak + 1 ELSE 0]
          /\ IF below
             THEN /\ settleCount' = settleCount + 1
                  /\ IF settleCount + 1 >= params.settleThreshold
                     THEN keyFound_' = TRUE /\ pc' = "done_approx"
                     ELSE pc' = "di" /\ UNCHANGED keyFound_
             ELSE /\ settleCount' = settleCountOnFailure(settleCount)
                  /\ pc' = "di"
                  /\ UNCHANGED keyFound_
    /\ UNCHANGED <<optVars, aigStruct, aigIncr, aigPc, probe, ctorVars, bestKey_, params,
                   queryCount, di>>

RandomDraws(n) == [1..n -> InputVectors]

Init ==
    /\ \E c \in AttackCircuits : InitAig(c)
    /\ expectedKey_ \in KeyVectors
    /\ ctor = [key |-> expectedKey_, portFound |-> TRUE, warned |-> FALSE]
    /\ testInputs_ = <<>>
    /\ testOutputs_ = <<>>
    /\ bestKey_ = <<>>
    /\ keyFound_ = FALSE
    /\ pc = "idle"
    /\ params = [mode |-> "none"]
    /\ queryCount = 0
    /\ settleCount = 0
    /\ di = NoDI
    /\ meas = NoMeas
    /\ NoOptimizer

Next ==
    \/ \E p \in SatParams \cup AppSatParams :
           \E vectors \in RandomDraws(p.nbInitialVectors) : RunPrologue(p, vectors)
    \/ FindNewValidKey
    \/ SolverTimeout
    \/ FindDIFromBestKey
    \/ SatRefine
    \/ SatRevalidate
    \/ FindDI
    \/ AppSatRefine
    \/ \E rand \in RandomDraws(IF pc = "measure" THEN params.nbRandomVectors ELSE 0) :
           AppSatMeasure(rand)

Spec == Init /\ [][Next]_vars

----------------------------------------------------------------------------
(* SatAttack: the constructor followed by runSat *)

\* the keys given to the constructor
GivenKeys == UNION {BoolVectors(n) : n \in 0..(nbKeyBits + MaxExtraKeyBits)}

\* expectedKey_.resize(nbKeyBits_, false) on a key of at least nbKeyBits_ bits
resizeKey(key) == SubSeq(key, 1, nbKeyBits)

\* the constructor with the error given for every key whose size is not nbKeyBits_
ConstructStrict(key, portFound) ==
    /\ pc = "unbuilt"
    /\ IF ~portFound
       THEN /\ pc' = "error_key_port"
            /\ expectedKey_' = key
            /\ ctor' = [key |-> key, portFound |-> portFound, warned |-> FALSE]
       ELSE IF Len(key) # nbKeyBits
       THEN /\ pc' = "error_key_size"
            /\ expectedKey_' = key
            /\ ctor' = [key |-> key, portFound |-> portFound, warned |-> FALSE]
       ELSE /\ pc' = "idle"
            /\ expectedKey_' = resizeKey(key)
            /\ ctor' = [key |-> key, portFound |-> portFound, warned |-> FALSE]
    /\ UNCHANGED <<optVars, aigVars, testInputs_, testOutputs_, bestKey_, keyFound_, params,
                   queryCount, settleCount, di, meas>>

\* SatAttack::SatAttack(mod, portName, expectedKey); portFound: the module has a wire of
\* that name (getKeyPort)
Construct(key, portFound) ==
    /\ pc = "unbuilt"
    /\ IF ~portFound
       THEN /\ pc' = "error_key_port"
            /\ expectedKey_' = key
            /\ ctor' = [key |-> key, portFound |-> portFound, warned |-> FALSE]
       ELSE IF Len(key) < nbKeyBits
       THEN /\ pc' = "error_key_size"
            /\ expectedKey_' = key
            /\ ctor' = [key |-> key, portFound |-> portFound, warned |-> FALSE]
       ELSE /\ pc' = "idle"
            /\ expectedKey_' = resizeKey(key)
            /\ ctor' = [key |-> key, portFound |-> portFound,
                        warned |-> Len(key) >= nbKeyBits + 4]
    /\ UNCHANGED <<optVars, aigVars, testInputs_, testOutputs_, bestKey_, keyFound_, params,
                   queryCount, settleCount, di, meas>>

ConfigCircuits == {XorKeyCircuit, MuxKeyCircuit}

InitConfig ==
    /\ \E c \in ConfigCircuits : InitAig(c)
    /\ ctor = NoCtor
    /\ expectedKey_ = <<>>
    /\ testInputs_ = <<>>
    /\ testOutputs_ = <<>>
    /\ bestKey_ = <<>>
    /\ keyFound_ = FALSE
    /\ pc = "unbuilt"
    /\ params = [mode |-> "none"]
    /\ queryCount = 0
    /\ settleCount = 0
    /\ di = NoDI
    /\ meas = NoMeas
    /\ NoOptimizer

NextConfig ==
    \/ \E key \in GivenKeys, portFound \in BOOLEAN : Construct(key, portFound)
    \/ \E p \in SatParams :
           \E vectors \in RandomDraws(p.nbInitialVectors) : RunPrologue(p, vectors)
    \/ FindNewValidKey
    \/ SolverTimeout
    \/ FindDIFromBestKey
    \/ SatRefine
    \/ SatRevalidate

SpecConfig == InitConfig /\ [][NextConfig]_vars

----------------------------------------------------------------------------
(* Construction of an AIG, as init_aig does it: gates are added, then setupIncremental *)

(* Optimizer: the Pareto front *)

\* the objective values and the solutions given to tryAddSolution
ObjectiveValues == [1..NbObjectives -> 0..MaxObjective]
Solutions ==
    {<<>>} \cup {<<n>> : n \in 0..(NbNodes - 1)}
           \cup {q \in (0..(NbNodes - 1)) \X (0..(NbNodes - 1)) : q[1] # q[2]}

\* paretoDominates that asks a to be larger than b on every objective
paretoDominatesStrictly(a, b) ==
    IF Len(a) # Len(b) THEN FALSE
    ELSE \A i \in 1..Len(a) : ~(a[i] <= b[i])

\* paretoDominates(a, b): no objective of a is smaller than the one of b
paretoDominates(a, b) ==
    IF Len(a) # Len(b) THEN FALSE
    ELSE \A i \in 1..Len(a) : ~(a[i] < b[i])

\* operator< of std::vector
RECURSIVE vectorLess(_, _)
vectorLess(a, b) ==
    IF b = <<>> THEN FALSE
    ELSE IF a = <<>> THEN TRUE
    ELSE IF a[1] < b[1] THEN TRUE
    ELSE IF b[1] < a[1] THEN FALSE
    ELSE vectorLess(Tail(a), Tail(b))

\* std::sort of a solution
RECURSIVE sortSolution(_)
sortSolution(sol) ==
    IF sol = <<>> THEN <<>>
    ELSE LET rest == sortSolution(Tail(sol))
             below == SelectSeq(rest, LAMBDA x : x < sol[1])
             above == SelectSeq(rest, LAMBDA x : ~(x < sol[1]))
         IN below \o <<sol[1]>> \o above

\* the comparison cleanupParetoFront sorts the front by
paretoElementLess(a, b) ==
    IF a.second # b.second THEN vectorLess(a.second, b.second)
    ELSE vectorLess(a.first, b.first)

RECURSIVE sortParetoFront(_)
sortParetoFront(front) ==
    IF front = <<>> THEN <<>>
    ELSE LET rest == sortParetoFront(Tail(front))
             below == SelectSeq(rest, LAMBDA x : paretoElementLess(x, front[1]))
             above == SelectSeq(rest, LAMBDA x : ~paretoElementLess(x, front[1]))
         IN below \o <<front[1]>> \o above

cleanupParetoFront(front) ==
    sortParetoFront([k \in 1..Len(front) |->
                        [first |-> sortSolution(front[k].first), second |-> front[k].second]])

\* Optimizer::tryAddSolution(sol, obj) on the front given: the new front and the result
tryAddSolution(front, sol, obj) ==
    IF \E k \in 1..Len(front) : paretoDominates(front[k].second, obj)
    THEN [front |-> front, ret |-> FALSE]
    ELSE LET newPareto == SelectSeq(front, LAMBDA p : ~paretoDominates(obj, p.second))
         IN [front |-> cleanupParetoFront(Append(newPareto, [first |-> sol, second |-> obj])),
             ret |-> TRUE]

\* Optimizer::tryAddSolution(sol): an empty solution is refused, of another one the
\* objective value obj is computed
TryAddSolution(sol, obj) ==
    /\ LET r == IF sol = <<>> THEN [front |-> paretoFront_, ret |-> FALSE]
                ELSE tryAddSolution(paretoFront_, sol, obj)
       IN /\ paretoFront_' = r.front
          /\ lastAdd' = [sol |-> sol, obj |-> obj, ret |-> r.ret, called |-> TRUE,
                       sizeBefore |-> Len(paretoFront_)]
    /\ UNCHANGED <<aigVars, satVars>>

InitPareto ==
    /\ InitAig(XorKeyCircuit)
    /\ NoAttack

NextPareto == \E sol \in Solutions, obj \in ObjectiveValues : TryAddSolution(sol, obj)

SpecPareto == InitPareto /\ [][NextPareto]_vars

----------------------------------------------------------------------------
\* the AIG as the gate builders see it
aigGraph == [nbInputs |-> nbInputs_, nodes |-> nodes_]

\* the effect of a gate builder that returned r
Built(r) ==
    /\ nodes_' = r.g.nodes
    /\ state_' = state_ \o [k \in 1..(Len(r.g.nodes) - Len(nodes_)) |-> WordZero]
    /\ handedOut' = handedOut \cup {r.lit, inv(r.lit)}
    /\ UNCHANGED <<optVars, nbInputs_, outputs_, fanouts_, comb_inputs_, test_vectors_, aigIncr,
                   aigPc, probe, satVars>>

\* a gate builder that adds k nodes can still be called
canAdd(k) == aigPc = "building" /\ Len(nodes_) + k <= MaxBuildNodes

AddAnd(a, b) == canAdd(1) /\ Built(addAnd(aigGraph, a, b))
AddNand(a, b) == canAdd(1) /\ Built(addNand(aigGraph, a, b))
AddNor(a, b) == canAdd(1) /\ Built(addNor(aigGraph, a, b))
AddOr(a, b) == canAdd(1) /\ Built(addOr(aigGraph, a, b))
AddXor(a, b) ==
    /\ canAdd(3)
    /\ \E r \in {addXor(aigGraph, a, b), addXorSecondFirst(aigGraph, a, b)} : Built(r)
AddXnor(a, b) ==
    /\ canAdd(3)
    /\ \E r \in {addXor(aigGraph, a, b), addXorSecondFirst(aigGraph, a, b)} :
           Built([g |-> r.g, lit |-> inv(r.lit)])
AddMux(sel, a, b) ==
    /\ canAdd(3)
    /\ \E r \in {addMux(aigGraph, sel, a, b), addMuxSecondFirst(aigGraph, sel, a, b)} :
           Built(r)
AddBuffer(a) == canAdd(1) /\ Built(addBuffer(aigGraph, a))
AddNot(a) == canAdd(1) /\ Built(addNot(aigGraph, a))

SetupIncremental ==
    /\ aigPc = "building"
    /\ fanouts_' = setupIncrementalFanouts
    /\ isTouched_' = [v \in 1..(nbInputs_ + Len(nodes_) + 1) |-> FALSE]
    /\ touchedVars_' = <<>>
    /\ aigPc' = "built"
    /\ UNCHANGED <<optVars, nbInputs_, nodes_, outputs_, handedOut, comb_inputs_, test_vectors_,
                   state_, savedState_, toVisit_, probe, satVars>>

InitBuild ==
    /\ nbInputs_ \in 0..MaxBuildInputs
    /\ nodes_ = <<>>
    /\ outputs_ = <<>>
    /\ comb_inputs_ = [k \in 1..nbInputs_ |-> PrimaryInput]
    /\ state_ = [v \in 1..(nbInputs_ + 1) |-> WordZero]
    /\ savedState_ = <<>>
    /\ fanouts_ = <<>>
    /\ handedOut = {LitZero, LitOne}
                       \cup UNION {{getInput(k), inv(getInput(k))} : k \in 0..(nbInputs_ - 1)}
    /\ test_vectors_ = <<>>
    /\ isTouched_ = <<>>
    /\ touchedVars_ = <<>>
    /\ toVisit_ = {}
    /\ aigPc = "building"
    /\ probe = NoProbe
    /\ NoAttack

NextBuild ==
    \/ canAdd(1) /\ \E a \in handedOut, b \in handedOut : AddAnd(a, b)
    \/ canAdd(1) /\ \E a \in handedOut, b \in handedOut : AddNand(a, b)
    \/ canAdd(1) /\ \E a \in handedOut, b \in handedOut : AddNor(a, b)
    \/ canAdd(1) /\ \E a \in handedOut, b \in handedOut : AddOr(a, b)
    \/ canAdd(3) /\ \E a \in handedOut, b \in handedOut : AddXor(a, b)
    \/ canAdd(3) /\ \E a \in handedOut, b \in handedOut : AddXnor(a, b)
    \/ canAdd(3) /\ \E sel \in handedOut, a \in handedOut, b \in handedOut : AddMux(sel, a, b)
    \/ canAdd(1) /\ \E a \in handedOut : AddBuffer(a)
    \/ canAdd(1) /\ \E a \in handedOut : AddNot(a)
    \/ SetupIncremental

SpecBuild == InitBuild /\ [][NextBuild]_vars

----------------------------------------------------------------------------
(* runSat when the solver never times out *)

TermCircuits == {ToyCircuit, MuxKeyCircuit, OrKeyCircuit}

InitTerm ==
    /\ \E c \in TermCircuits : InitAig(c)
    /\ expectedKey_ \in KeyVectors
    /\ ctor = [key |-> expectedKey_, portFound |-> TRUE, warned |-> FALSE]
    /\ testInputs_ = <<>>
    /\ testOutputs_ = <<>>
    /\ bestKey_ = <<>>
    /\ keyFound_ = FALSE
    /\ pc = "idle"
    /\ params = [mode |-> "none"]
    /\ queryCount = 0
    /\ settleCount = 0
    /\ di = NoDI
    /\ meas = NoMeas
    /\ NoOptimizer

NextTerm ==
    \/ \E p \in SatParams :
           \E vectors \in RandomDraws(p.nbInitialVectors) : RunPrologue(p, vectors)
    \/ FindNewValidKey
    \/ FindDIFromBestKey
    \/ SatRefine
    \/ SatRevalidate

RunningPcs == {"idle", "search", "di", "refine", "revalidate", "measure"}
PcValues ==
    RunningPcs \cup {"done_success", "done_approx", "done_nokey", "fatal_expected_key",
                     "fatal_revalidate"}

\* the program leaves the point where it is: the call it makes there returns
Returns == pc \in RunningPcs /\ pc' \in PcValues

\* runSat is sequential code: each solver call and each simulation returns, so that
\* control does not stay forever at a point of the run that is not its end
SpecTerm == InitTerm /\ [][NextTerm]_vars /\ WF_pc(Returns)

\* runSat or runAppSat returns to its caller: the attack object stays as the run left it
ReturnToCaller ==
    /\ pc \in {"done_success", "done_approx", "done_nokey"}
    /\ pc' = "idle"
    /\ UNCHANGED <<optVars, aigVars, ctorVars, testInputs_, testOutputs_, bestKey_, keyFound_,
                   params, queryCount, settleCount, di, meas>>

\* the parameters of the runs made on an attack object that is used again
ReuseParams ==
    SatParams \cup {p \in AppSatParams : p.nbDIQueries = 1 /\ p.settleThreshold = 1}

\* an attack object on which runSat and runAppSat are called one after the other
NextReuse ==
    \/ \E p \in ReuseParams :
           \E vectors \in RandomDraws(p.nbInitialVectors) : RunPrologue(p, vectors)
    \/ FindNewValidKey
    \/ FindDIFromBestKey
    \/ SatRefine
    \/ SatRevalidate
    \/ FindDI
    \/ AppSatRefine
    \/ \E rand \in RandomDraws(IF pc = "measure" THEN params.nbRandomVectors ELSE 0) :
           AppSatMeasure(rand)
    \/ ReturnToCaller

SpecReuse == Init /\ [][NextReuse]_vars

\* runAppSat without a timeout of the solver
NextAppTerm ==
    \/ \E p \in AppSatParams :
           \E vectors \in RandomDraws(p.nbInitialVectors) : RunPrologue(p, vectors)
    \/ FindNewValidKey
    \/ FindDI
    \/ AppSatRefine
    \/ \E rand \in RandomDraws(IF pc = "measure" THEN params.nbRandomVectors ELSE 0) :
           AppSatMeasure(rand)

\* runAppSat is sequential code too: control leaves every point that is not an end
SpecAppTerm == Init /\ [][NextAppTerm]_vars /\ WF_pc(Returns)

----------------------------------------------------------------------------
(* Properties of the simulation *)

\* the incremental state between two probes
CleanIncrementalState ==
    [state |-> savedState_, touched |-> [v \in 1..Len(state_) |-> FALSE], vars |-> <<>>,
     visit |-> {}]

\* C5: after simulate(baseline) and copyIncrementalState, simulateIncremental(N) returns,
\* for every non-constant variable N, the output words that
\* simulateWithToggling(baseline, {N}) returns.
C5_IncrementalEqualsBatch ==
    (aigPc = "probed" /\ ~is_constant(probe.toggling[1]))
        => probe.ret = simulateWithToggling(state_, probe.baseline, probe.toggling).ret

\* a probe of a gate with fanouts came back with outputs that differ from the baseline's
C5_Witness ==
    /\ aigPc = "probed"
    /\ variable(probe.toggling[1]) > nbInputs_
    /\ At(fanouts_, variable(probe.toggling[1])) # <<>>
    /\ Len(nodes_) >= 3
    /\ probe.ret # getOutputValues(state_)
    /\ probe.ret = simulateWithToggling(state_, probe.baseline, probe.toggling).ret

\* C6: when simulateIncremental returns, every variable has the value of the snapshot,
\* no variable is marked touched, the touched list and the worklist are empty, and the
\* outputs returned are those the same probe returns when it is the first after the
\* snapshot.
C6_ProbeIndependence ==
    aigPc = "probed"
        => /\ state_ = savedState_
           /\ \A v \in 1..Len(isTouched_) : ~isTouched_[v]
           /\ touchedVars_ = <<>>
           /\ toVisit_ = {}
           /\ probe.ret = simulateIncremental(CleanIncrementalState, savedState_,
                                              probe.toggling[1]).ret

\* a second probe returned after a first one had changed and restored several variables
C6_Witness ==
    /\ aigPc = "probed"
    /\ probe.count >= 2
    /\ state_ = savedState_
    /\ probe.ret # getOutputValues(state_)

\* the state of the model as booleans, as checkSatTranslation reads it
stateAsBools(st) == [k \in 1..Len(st) |-> st[k] # WordZero]

\* C7: with inputs and key pinned, the clauses of aigToSat have exactly one satisfying
\* valuation, it is the one aigToSat's literals take, and it equals variable by variable
\* the state the structural model holds after callDesign(inputs, key).
C7_CnfRoundTrip ==
    probe.op = "callDesign"
        => LET inputLits == boolVectorToSat(probe.inputs)
               keyLits == boolVectorToSat(probe.key)
           IN /\ {v \in BoolVectors(Len(state_)) : aigToSatClauses(v, inputLits, keyLits)}
                    = {stateAsBools(state_)}
              /\ aigToSat(inputLits, keyLits) = stateAsBools(state_)

\* callDesign ran on a circuit whose key bits are interleaved with the inputs, with a
\* key that is not uniform, and some gate is true
C7_Witness ==
    /\ probe.op = "callDesign"
    /\ comb_inputs_[1].key
    /\ Len(probe.key) = 2 /\ probe.key[1] # probe.key[2]
    /\ \E j \in 0..(Len(nodes_) - 1) : At(state_, j + nbInputs_ + 1) # WordZero
    /\ aigToSat(probe.inputs, probe.key) = stateAsBools(state_)

\* the state of the model right after construction
ZeroState == [v \in 1..Len(state_) |-> WordZero]

\* C8: callDesign(inputs, key) returns the same outputs whatever simulate,
\* simulateWithToggling, simulateIncremental or callDesign calls ran before it on the
\* shared model: its result is the one it gives on the freshly built model.
C8_CallDesignPure ==
    probe.op = "callDesign"
        => probe.ret = callDesign(ZeroState, probe.inputs, probe.key).ret

\* callDesign ran right after a simulation with toggling and returned a true output
C8_Witness ==
    /\ probe.op = "callDesign"
    /\ probe.before = "toggling"
    /\ \E j \in 1..Len(probe.ret) : probe.ret[j]
    /\ probe.ret = callDesign(ZeroState, probe.inputs, probe.key).ret

----------------------------------------------------------------------------
(* Properties of the attack *)

\* the outputs callDesign and callOracle return in the current state
designOutputs(inputs, key) == callDesign(state_, inputs, key).ret
oracleOutputs(inputs) == callOracle(state_, inputs).ret

\* key reproduces the stored output of every test vector of the store
reproducesStore(key) ==
    \A i \in 1..Len(testInputs_) : designOutputs(testInputs_[i], key) = testOutputs_[i]

\* C1: in runSat, whenever keyFound_ is true, bestKey_ reproduces the stored output of every
\* test vector, findDIFromBestKey with that key and that store has no model, and the
\* check of keyPassesTests(bestKey_) after the loop never fails.
C1_SatSuccessConsistent ==
    (params.mode = "sat" /\ keyFound_)
        => /\ reproducesStore(bestKey_)
           /\ findDIFromBestKeyModels(testInputs_, testOutputs_, bestKey_) = {}
           /\ pc # "fatal_revalidate"
           /\ pc = "done_success" =>
                  keyPassesTests(state_, testInputs_, testOutputs_, bestKey_).ret

\* runSat reported success after at least one distinguishing input was added to a store
\* that held an initial vector
C1_Witness ==
    /\ params.mode = "sat"
    /\ pc = "done_success"
    /\ keyFound_
    /\ queryCount >= 1
    /\ Len(testInputs_) >= 2

\* C2: in runSat, when findDIFromBestKey has no model and success is reported, bestKey_ is
\* functionally correct: callDesign(inputs, bestKey_) = callOracle(inputs) for every input
\* vector, and every key that reproduces the store (the oracle's key is one) gives the
\* outputs of bestKey_ on every input vector.
C2_SatSuccessFunctionallyCorrect ==
    (params.mode = "sat" /\ keyFound_)
        => /\ \A inputs \in InputVectors :
                  designOutputs(inputs, bestKey_) = oracleOutputs(inputs)
           /\ reproducesStore(expectedKey_)
           /\ \A key \in KeyVectors :
                  reproducesStore(key) =>
                      \A inputs \in InputVectors :
                          designOutputs(inputs, key) = designOutputs(inputs, bestKey_)

\* runSat reported success with a key that is not the oracle's key
C2_Witness ==
    /\ params.mode = "sat"
    /\ pc = "done_success"
    /\ keyFound_
    /\ bestKey_ # expectedKey_

\* C3: a distinguishing-input query that has a model returns a genuine distinguishing
\* input: from findDIFromBestKey the key reproduces every stored test vector and gives,
\* on the returned inputs, outputs that differ from those of bestKey_; from findDI both
\* keys reproduce every stored test vector and give different outputs on the returned
\* inputs.
C3_GenuineDistinguishingInput ==
    (pc = "refine" /\ di.found)
        => /\ Len(di.inputs) = nbInputs
           /\ params.mode = "sat" =>
                  /\ Len(di.key) = nbKeyBits
                  /\ reproducesStore(di.key)
                  /\ designOutputs(di.inputs, di.key) # designOutputs(di.inputs, bestKey_)
           /\ params.mode = "appsat" =>
                  /\ Len(di.key1) = nbKeyBits
                  /\ Len(di.key2) = nbKeyBits
                  /\ reproducesStore(di.key1)
                  /\ reproducesStore(di.key2)
                  /\ designOutputs(di.inputs, di.key1) # designOutputs(di.inputs, di.key2)

\* findDI returned two keys and an input with a store that holds two test vectors, and
\* some key does not reproduce the store
C3_Witness ==
    /\ pc = "refine"
    /\ di.found
    /\ params.mode = "appsat"
    /\ Len(testInputs_) >= 2
    /\ \E key \in KeyVectors : ~reproducesStore(key)

\* C4: in runSat and in runAppSat, each time a distinguishing-input query is issued and
\* whenever keyFound_ is true, bestKey_ has nbKeyBits bits and reproduces the stored
\* output of every test vector of the store.
C4_BestKeyInvariant ==
    (params.mode \in {"sat", "appsat"} /\ (pc = "di" \/ keyFound_))
        => /\ Len(bestKey_) = nbKeyBits
           /\ reproducesStore(bestKey_)

\* C4 in runSat alone: the invariant of bestKey_ at each query and at success
C4_BestKeyInvariantSat ==
    (params.mode = "sat" /\ (pc = "di" \/ keyFound_))
        => /\ Len(bestKey_) = nbKeyBits
           /\ reproducesStore(bestKey_)

\* runAppSat reported success with a bestKey_ that does not reproduce the store
C4_Witness ==
    /\ params.mode = "appsat"
    /\ keyFound_
    /\ pc \in {"done_success", "done_approx"}
    /\ ~reproducesStore(bestKey_)

\* the number of consecutive measurement rounds below the threshold that runAppSat needs
settleRoundsNeeded == IF params.settleThreshold >= 1 THEN params.settleThreshold ELSE 1

\* C9 (as amended): a measurement round of runAppSat stops with approximate success exactly
\* when its error and the error of the rounds before it have been strictly below
\* errorThreshold in max(settleThreshold, 1) consecutive measurement rounds; a round whose
\* error is not strictly below errorThreshold sets the counter to zero, a round below it
\* adds one, and every other step leaves the counter as it is.
C9_SettleConvergence ==
    [][/\ pc = "measure" =>
              LET below == FracLess(meas'.epsilon, params.errorThreshold)
              IN /\ (pc' = "done_approx" /\ keyFound_') <=> meas'.streak >= settleRoundsNeeded
                 /\ pc' \in {"done_approx", "di"}
                 /\ settleCount' = IF below THEN settleCount + 1 ELSE 0
                 /\ settleCount' = meas'.streak
       /\ pc # "measure" => /\ settleCount' = settleCount
                            /\ pc' # "done_approx"]_vars

\* runAppSat stopped with approximate success after a measurement round at or above the
\* threshold had set the counter back to zero
C9_Witness ==
    /\ pc = "done_approx"
    /\ keyFound_
    /\ params.settleThreshold >= 1
    /\ meas.streak = params.settleThreshold
    /\ queryCount > params.nbDIQueries * meas.streak

\* C9 as stated: the round stops with approximate success exactly when the error has been
\* strictly below errorThreshold in settleThreshold consecutive measurement rounds.
C9_SettleConvergenceAsStated ==
    [][pc = "measure" =>
           ((pc' = "done_approx" /\ keyFound_') <=> meas'.streak >= params.settleThreshold)]_vars

\* the random inputs of a measurement round on which bestKey_ differs from the oracle
mismatches(rand) ==
    SelectSeq(rand, LAMBDA inputs : designOutputs(inputs, bestKey_) # oracleOutputs(inputs))

\* C10: one call of measureErrorAndConstrain counts every random input on which the
\* outputs of bestKey_ differ from the oracle's in the error rate nbErrors / nbRandomVectors,
\* appends to the store the first maxConstraints of them only, each as (input, oracle
\* output), and, called with maxConstraints the size of the store, at most doubles it.
C10_ConstraintCap ==
    [][pc = "measure" =>
           LET rand == meas'.rand
               wrong == mismatches(rand)
               kept == SubSeq(wrong, 1, IF Len(wrong) <= Len(testInputs_)
                                        THEN Len(wrong) ELSE Len(testInputs_))
           IN /\ Len(rand) = params.nbRandomVectors
              /\ meas'.maxConstraints = Len(testInputs_)
              /\ meas'.nbErrors = Len(wrong)
              /\ meas'.epsilon = IF Len(rand) = 0 THEN <<0, 1>> ELSE <<Len(wrong), Len(rand)>>
              /\ testInputs_' = testInputs_ \o kept
              /\ testOutputs_' = testOutputs_ \o [k \in 1..Len(kept) |-> oracleOutputs(kept[k])]
              /\ Len(testInputs_') <= 2 * Len(testInputs_)]_vars

\* a measurement round found more mismatches than it was allowed to append
C10_Witness ==
    /\ meas.done
    /\ meas.maxConstraints >= 1
    /\ meas.nbErrors > meas.maxConstraints
    /\ Len(testInputs_) = 2 * meas.maxConstraints

\* C11: runAppSat measures the error exactly after the distinguishing-input rounds whose
\* running count is a multiple of nbDIQueries, and after no other step; a measurement
\* draws nbRandomVectors inputs, compares callDesign with bestKey_ to callOracle on each of
\* them, and leaves bestKey_ and the count of rounds as they are.
C11_MeasurementCadence ==
    [][/\ (pc = "refine" /\ params.mode = "appsat") =>
              /\ queryCount' = queryCount + 1
              /\ pc' \in {"measure", "di"}
              /\ pc' = "measure" <=> queryCount' % params.nbDIQueries = 0
       /\ pc' = "measure" => (pc = "refine" /\ params.mode = "appsat")
       /\ pc = "measure" =>
              /\ meas'.done
              /\ Len(meas'.rand) = params.nbRandomVectors
              /\ meas'.nbErrors = Len(mismatches(meas'.rand))
              /\ bestKey_' = bestKey_
              /\ queryCount' = queryCount]_vars

\* runAppSat with nbDIQueries = 2 went through its first round without a measurement and
\* is about to measure after the second
C11_Witness ==
    /\ pc = "measure"
    /\ params.mode = "appsat"
    /\ params.nbDIQueries = 2
    /\ queryCount = 2

\* s is t or t with elements appended
IsPrefix(t, s) == Len(t) <= Len(s) /\ SubSeq(s, 1, Len(t)) = t

\* C12: within a run the store only grows by appends: every step leaves the entries it
\* found as they are and in their place; after every step testInputs_ and testOutputs_
\* have the same length and every stored pair (input, output) has output =
\* callOracle(input), the pairs appended by measureErrorAndConstrain included.
C12_TestVectorLifecycle ==
    [][/\ IsPrefix(testInputs_, testInputs_')
       /\ IsPrefix(testOutputs_, testOutputs_')
       /\ Len(testInputs_') = Len(testOutputs_')
       /\ \A i \in 1..Len(testInputs_') :
              /\ Len(testInputs_'[i]) = nbInputs
              /\ testOutputs_'[i] = oracleOutputs(testInputs_'[i])]_vars

\* the store holds an initial vector, a distinguishing input and a vector appended by a
\* measurement round
C12_Witness ==
    /\ params.mode = "appsat"
    /\ params.nbInitialVectors = 1
    /\ meas.done
    /\ meas.nbErrors >= 1
    /\ meas.maxConstraints >= 2
    /\ Len(testInputs_) > meas.maxConstraints

\* C13: runSat queries the solver in the order Search, then DI-Query and Search in turn:
\* the first query is a Search; a Search with a model is followed by a DI-Query; a
\* DI-Query with a model is followed by the append of (input, callOracle(input)) for the
\* input found and by nothing else on the store, then by a Search over the enlarged
\* store; a Search without model ends the run with keyFound_ false and bestKey_ empty.
C13_SatProtocolOrder ==
    [][params'.mode = "sat" =>
          /\ pc = "idle" => /\ pc' \in {"search", "fatal_expected_key"}
                            /\ queryCount' = 0
          /\ pc = "search" =>
                 /\ pc' \in {"di", "done_nokey", "timeout"}
                 /\ UNCHANGED <<testInputs_, testOutputs_, queryCount>>
                 /\ pc' = "di" => /\ Len(bestKey_') = nbKeyBits
                                  /\ forceKeyCorrect(testInputs_, testOutputs_, bestKey_')
                 /\ pc' = "done_nokey" => /\ ~keyFound_'
                                          /\ bestKey_' = <<>>
                                          /\ findNewValidKeyModels(testInputs_, testOutputs_) = {}
          /\ pc = "di" =>
                 /\ pc' \in {"refine", "revalidate", "timeout"}
                 /\ UNCHANGED <<testInputs_, testOutputs_, queryCount, bestKey_>>
                 /\ pc' = "refine" <=> di'.found
          /\ pc = "refine" =>
                 /\ pc' = "search"
                 /\ testInputs_' = Append(testInputs_, di.inputs)
                 /\ testOutputs_' = Append(testOutputs_, oracleOutputs(di.inputs))
                 /\ queryCount' = queryCount + 1
                 /\ UNCHANGED <<bestKey_, keyFound_>>
          /\ pc' = "di" => pc = "search"
          /\ pc' = "search" => pc \in {"idle", "refine"}]_vars

\* runSat issues its third DI-Query: two distinguishing inputs were found, each followed
\* by a Search
C13_Witness ==
    /\ params.mode = "sat"
    /\ pc = "di"
    /\ queryCount = 2
    /\ Len(testInputs_) = params.nbInitialVectors + 2

\* C14: a time-out of the solver in findNewValidKey, findDIFromBestKey or findDI ends the
\* run at once: the step changes nothing but the place of the run, keyFound_ is and stays
\* false, no step follows it, and it is not the outcome of a query without model: a query
\* that returns sets keyFound_ (DI-Query) or ends the run without key (Search) exactly
\* when it has no model.
C14_SolverTimeoutFatal ==
    [][/\ pc # "timeout"
       /\ pc' = "timeout" =>
              /\ pc \in {"search", "di"}
              /\ ~keyFound_ /\ ~keyFound_'
              /\ UNCHANGED <<testInputs_, testOutputs_, queryCount, settleCount, di, meas>>
       /\ (pc = "search" /\ pc' # "timeout") =>
              /\ ~keyFound_'
              /\ pc' = "done_nokey" <=> findNewValidKeyModels(testInputs_, testOutputs_) = {}
       /\ (pc = "di" /\ pc' # "timeout") =>
              keyFound_' <=>
                  IF params.mode = "sat"
                  THEN findDIFromBestKeyModels(testInputs_, testOutputs_, bestKey_) = {}
                  ELSE findDIModels(testInputs_, testOutputs_) = {}]_vars

\* the solver timed out in a query issued after a distinguishing input had been added
C14_Witness ==
    /\ pc = "timeout"
    /\ queryCount >= 1
    /\ ~keyFound_
    /\ Len(testInputs_) >= 1

\* the run has done something: a test vector is stored, a query was answered or the run
\* has left its start
attempted ==
    \/ testInputs_ # <<>>
    \/ bestKey_ # <<>>
    \/ keyFound_
    \/ queryCount > 0
    \/ pc \notin {"unbuilt", "idle", "error_key_port", "error_key_size"}

\* C15 (as amended): the constructor reports an error at once, and nothing is attempted
\* after it, when the key port does not exist or the key has fewer bits than the key
\* port; a key of nbKeyBits bits or more is accepted, cut to its first nbKeyBits bits,
\* with a warning when it has at least four bits too many.
C15_ConfigurationErrors ==
    [][/\ pc \notin {"error_key_port", "error_key_size"}
       /\ pc' # "unbuilt" =>
              LET bad == ~ctor'.portFound \/ Len(ctor'.key) < nbKeyBits
              IN /\ bad <=> pc' \in {"error_key_port", "error_key_size"}
                 /\ bad => ~attempted'
                 /\ ~bad => /\ expectedKey_' = SubSeq(ctor'.key, 1, nbKeyBits)
                            /\ ctor'.warned <=> Len(ctor'.key) >= nbKeyBits + 4]_vars

\* the constructor refused a key that is one bit short of the two bits of the key port
C15_Witness ==
    /\ pc = "error_key_size"
    /\ ctor.portFound
    /\ nbKeyBits = 2
    /\ Len(ctor.key) = 1
    /\ ~attempted

\* C15 as stated: with a key whose length is not nbKeyBits, or without the key port, the
\* constructor reports an error and nothing is attempted.
C15_ConfigurationErrorsAsStated ==
    (pc # "unbuilt" /\ (~ctor.portFound \/ Len(ctor.key) # nbKeyBits))
        => /\ pc \in {"error_key_port", "error_key_size"}
           /\ ~attempted

\* C16: runPrologue, once it has collected the nbInitialVectors initial test vectors and
\* before the first Search, checks that expectedKey_ reproduces the stored output of each
\* of them: it goes on to the Search exactly when it does, and otherwise ends in the
\* fatal error, from which no step follows and which leaves keyFound_ false and is not
\* the end without key.
C16_StartupSanityCheck ==
    [][/\ pc # "fatal_expected_key"
       /\ pc = "idle" =>
              /\ Len(testInputs_') = params'.nbInitialVectors
              /\ Len(testOutputs_') = params'.nbInitialVectors
              /\ pc' \in {"search", "fatal_expected_key"}
              /\ pc' = "search" <=>
                     \A i \in 1..Len(testInputs_') :
                         designOutputs(testInputs_'[i], expectedKey_) = testOutputs_'[i]
              /\ ~keyFound_'
              /\ bestKey_' = <<>> /\ queryCount' = 0
       /\ pc' \in {"search", "fatal_expected_key"} /\ pc # "refine" => pc = "idle"]_vars

\* runPrologue collected an initial test vector, the check of the expected key passed and
\* the first Search is about to be made
C16_Witness ==
    /\ pc = "search"
    /\ queryCount = 0
    /\ params.nbInitialVectors = 1
    /\ Len(testInputs_) = 1
    /\ reproducesStore(expectedKey_)

\* 2^n
RECURSIVE pow2(_)
pow2(n) == IF n = 0 THEN 1 ELSE 2 * pow2(n - 1)

isToyCircuit == nodes_ = ToyCircuit.nodes /\ comb_inputs_ = ToyCircuit.comb

\* C17: without a solver timeout runSat ends, and it ends after at most 2^nbInputs rounds
\* of distinguishing inputs; on the toy circuit started from one test vector it ends
\* within 4 rounds with keyFound_, bestKey_ is the expected key and no distinguishing
\* input is left.
C17_SatTermination ==
    /\ [](params.mode = "sat" => queryCount <= pow2(nbInputs))
    /\ [](pc \notin {"timeout", "fatal_expected_key", "fatal_revalidate"})
    /\ <>(pc \in {"done_success", "done_nokey"})
    /\ []((isToyCircuit /\ params.mode = "sat" /\ params.nbInitialVectors = 1)
            => /\ queryCount <= 4
               /\ pc # "done_nokey"
               /\ pc = "done_success" =>
                      /\ keyFound_
                      /\ bestKey_ = expectedKey_
                      /\ findDIFromBestKeyModels(testInputs_, testOutputs_, bestKey_) = {})

\* runSat ended on the toy circuit started from one test vector
C17_Witness ==
    /\ isToyCircuit
    /\ params.mode = "sat"
    /\ params.nbInitialVectors = 1
    /\ pc = "done_success"
    /\ bestKey_ = expectedKey_

\* runSat ended after exactly 2^nbInputs rounds, each input having been a distinguishing
\* input
C17_WitnessTight ==
    /\ params.mode = "sat"
    /\ nbInputs = 1
    /\ nbKeyBits = 2
    /\ pc = "done_success"
    /\ queryCount = pow2(nbInputs)

\* the circuit is not degenerate: two keys give different outputs on some input
keyMatters ==
    \E k1 \in KeyVectors, k2 \in KeyVectors, i \in InputVectors :
        designOutputs(i, k1) # designOutputs(i, k2)

\* the run was started without initial test vectors and has made no round yet
firstOfEmptyRun ==
    /\ params.mode \in {"sat", "appsat"}
    /\ params.nbInitialVectors = 0
    /\ queryCount = 0
    /\ testInputs_ = <<>>

\* C18: in a run with nbInitialVectors = 0 the first Search has a model and returns a key
\* of nbKeyBits bits, and the first DI query has a model whenever nbKeyBits > 0 and two
\* keys give different outputs on some input.
C18_ZeroInitialVectors ==
    [][/\ (firstOfEmptyRun /\ pc = "search") =>
              /\ pc' \in {"di", "timeout"}
              /\ pc' = "di" => bestKey_' \in KeyVectors
       /\ (firstOfEmptyRun /\ pc = "di" /\ nbKeyBits > 0 /\ keyMatters) =>
              /\ pc' \in {"refine", "timeout"}
              /\ pc' = "refine" =>
                     /\ di'.found
                     /\ di'.inputs \in InputVectors
                     /\ \E k1 \in KeyVectors, k2 \in KeyVectors :
                            designOutputs(di'.inputs, k1) # designOutputs(di'.inputs, k2)]_vars

\* the first DI query of a run started with no test vector returned a distinguishing input
C18_Witness ==
    /\ firstOfEmptyRun
    /\ pc = "refine"
    /\ nbKeyBits > 0
    /\ keyMatters
    /\ di.found
    /\ Len(bestKey_) = nbKeyBits

\* C19: whatever gates were added on literals the AIG handed out, both fanins of every
\* node name a variable smaller than the node's own, and once setupIncremental has run
\* every entry of the fanout list of variable i is a node variable greater than i.
C19_TopologicalOrder ==
    /\ \A j \in 0..(Len(nodes_) - 1) :
           /\ variable(nodeA(j)) < j + nbInputs_ + 1
           /\ variable(nodeB(j)) < j + nbInputs_ + 1
    /\ \A l \in handedOut : variable(l) < nbInputs_ + Len(nodes_) + 1
    /\ aigPc = "built" =>
           /\ Len(fanouts_) = nbInputs_ + Len(nodes_) + 1
           /\ \A i \in 0..(Len(fanouts_) - 1) :
                  \A k \in 1..Len(At(fanouts_, i)) :
                      /\ At(fanouts_, i)[k] > i
                      /\ At(fanouts_, i)[k] >= nbInputs_ + 1
                      /\ At(fanouts_, i)[k] < Len(fanouts_)

\* setupIncremental ran on an AIG of three nodes whose last node reads the first two
C19_Witness ==
    /\ aigPc = "built"
    /\ nbInputs_ = 1
    /\ Len(nodes_) = 3
    /\ variable(nodeA(2)) = 2
    /\ variable(nodeB(2)) = 3
    /\ At(fanouts_, 2) = <<4>>
    /\ At(fanouts_, 3) = <<4>>

\* the variables of the fanins of the node of variable i
faninVars(i) == {variable(nodeA(i - nbInputs_ - 1)), variable(nodeB(i - nbInputs_ - 1))}

\* the node variables that a path of fanins links to variable v
RECURSIVE transitiveFanout(_, _)
transitiveFanout(reached, i) ==
    IF i >= Len(state_) THEN reached
    ELSE transitiveFanout(IF faninVars(i) \cap reached # {} THEN reached \cup {i} ELSE reached,
                          i + 1)

toggledVar == variable(probe.toggling[1])
visitedSet == {probe.visited[k] : k \in 1..Len(probe.visited)}

\* C20: in a probe of simulateIncremental the nodes leave the worklist by ascending
\* variable; a node enters the worklist once and is recomputed once; only nodes in the
\* transitive fanout of the toggled variable are recomputed; no fanin of the node being
\* recomputed is still to be recomputed, and at the end of the probe every recomputed node
\* holds the AND of the final values of its fanins.
C20_WorklistOrder ==
    [][/\ (aigPc = "probing" /\ toVisit_ # {}) =>
              LET i == probe'.visited[Len(probe'.visited)]
              IN /\ probe'.visited = Append(probe.visited, i)
                 /\ i \in toVisit_ /\ \A k \in toVisit_ : i <= k
                 /\ \A k \in visitedSet : k < i
                 /\ i > nbInputs_ /\ i < Len(state_)
                 /\ i \in transitiveFanout({toggledVar}, nbInputs_ + 1) \ {toggledVar}
                 /\ \A f \in faninVars(i) : f < i /\ f \notin toVisit_
                 /\ At(state_', i) = AndW(getValue(state_, nodeA(i - nbInputs_ - 1)),
                                          getValue(state_, nodeB(i - nbInputs_ - 1)))
                 /\ \A v \in 0..(Len(state_) - 1) : v # i => At(state_', v) = At(state_, v)
                 /\ \A n \in toVisit_' \ toVisit_ :
                        n > i /\ n \notin visitedSet /\ ~At(isTouched_, n)
                 /\ toVisit_ \ {i} \subseteq toVisit_'
       /\ (aigPc = "probing" /\ toVisit_ = {}) =>
              /\ \A i \in visitedSet :
                     At(state_, i) = AndW(getValue(state_, nodeA(i - nbInputs_ - 1)),
                                          getValue(state_, nodeB(i - nbInputs_ - 1)))
              /\ \A v \in 0..(Len(state_) - 1) :
                     At(state_, v) # At(savedState_, v) => v \in visitedSet \cup {toggledVar}
       /\ aigPc' = "probing" /\ aigPc # "probing" =>
              /\ probe'.visited = <<>>
              /\ \A n \in toVisit_' : n > variable(probe'.toggling[1]) /\ ~At(isTouched_, n)]_vars

\* a probe on the reconvergent circuit recomputed three nodes or more, one of them a node
\* that two recomputed nodes feed
C20_Witness ==
    /\ aigPc = "probing"
    /\ toVisit_ = {}
    /\ Len(probe.visited) >= 3
    /\ \E i \in visitedSet : faninVars(i) \subseteq visitedSet /\ Cardinality(faninVars(i)) = 2

\* C21: a toggle of a constant literal is rejected, in the toggle list of
\* simulateWithToggling and in the single toggle of simulateIncremental, so that the
\* constant variable 0 keeps the value zero through every simulation and every probe.
C21_ConstantNeverToggled ==
    /\ At(state_, 0) = WordZero
    /\ aigPc \in {"probing", "probed"} => ~is_constant(probe.toggling[1])

\* the part of C21 that simulateWithToggling keeps: outside a probe of simulateIncremental
\* the constant variable is zero
C21_ConstantOutsideProbes == aigPc # "probing" => At(state_, 0) = WordZero

\* simulateIncremental was called on a constant literal, ran with variable 0 inverted and
\* returned outputs that are not those of the baseline
C21_Witness ==
    /\ aigPc = "probed"
    /\ is_constant(probe.toggling[1])
    /\ At(state_, 0) = WordZero
    /\ probe.ret # getOutputValues(state_)

\* C22: when runAppSat stops because findDI has no model and sets keyFound_, bestKey_
\* reproduces the stored output of every test vector and gives the oracle's outputs on
\* every input.
C22_AppSatExactExit ==
    (params.mode = "appsat" /\ pc = "done_success")
        => /\ keyFound_
           /\ Len(bestKey_) = nbKeyBits
           /\ reproducesStore(bestKey_)
           /\ \A inputs \in InputVectors : designOutputs(inputs, bestKey_) = oracleOutputs(inputs)

\* runAppSat stopped on a findDI without model after one round or more, every key that
\* reproduces the store unlocks the design, and bestKey_ is not one of them
C22_Witness ==
    /\ params.mode = "appsat"
    /\ pc = "done_success"
    /\ keyFound_
    /\ queryCount >= 1
    /\ findDIModels(testInputs_, testOutputs_) = {}
    /\ \E inputs \in InputVectors : designOutputs(inputs, bestKey_) # oracleOutputs(inputs)
    /\ \E i \in 1..Len(testInputs_) : designOutputs(testInputs_[i], bestKey_) # testOutputs_[i]

\* runBruteForce: key number i, key[j] = (i >> j) & 1
bruteForceKey(i) == [j \in 1..nbKeyBits |-> (i \div pow2(j - 1)) % 2 = 1]

\* runBruteForce over the store (tin, tout), from r = [bestKey, keyFound]
RECURSIVE runBruteForceLoop(_, _, _, _)
runBruteForceLoop(tin, tout, r, i) ==
    IF i >= pow2(nbKeyBits) THEN r
    ELSE runBruteForceLoop(tin, tout,
                           IF keyPassesTests(state_, tin, tout, bruteForceKey(i)).ret
                           THEN [bestKey |-> bruteForceKey(i), keyFound |-> TRUE]
                           ELSE r,
                           i + 1)

runBruteForce(tin, tout) ==
    runBruteForceLoop(tin, tout, [bestKey |-> <<>>, keyFound |-> FALSE], 0)

\* C23: findNewValidKey, when it returns, returns true exactly when some key of nbKeyBits
\* bits reproduces the stored output of every test vector, which is when runBruteForce
\* finds a key on the same store; the key returned passes keyPassesTests on the whole
\* store, whatever the keys of the earlier rounds were, and the store is left as it is.
C23_SearchExact ==
    [][(pc = "search" /\ pc' # "timeout") =>
           /\ pc' \in {"di", "done_nokey"}
           /\ pc' = "di" <=> runBruteForce(testInputs_, testOutputs_).keyFound
           /\ pc' = "di" <=>
                  \E key \in KeyVectors :
                      keyPassesTests(state_, testInputs_, testOutputs_, key).ret
           /\ pc' = "di" =>
                  /\ bestKey_' \in KeyVectors
                  /\ keyPassesTests(state_, testInputs_, testOutputs_, bestKey_').ret
           /\ pc' = "done_nokey" => bestKey_' = <<>>
           /\ testInputs_' = testInputs_ /\ testOutputs_' = testOutputs_]_vars

\* the Search that follows a round of runSat, on a store that some key does not
\* reproduce, returned a key that is not the one brute force would return
C23_Witness ==
    /\ pc = "di"
    /\ params.mode = "sat"
    /\ queryCount >= 1
    /\ Len(testInputs_) >= 1
    /\ \E key \in KeyVectors : ~reproducesStore(key)
    /\ reproducesStore(bestKey_)
    /\ runBruteForce(testInputs_, testOutputs_).keyFound
    /\ runBruteForce(testInputs_, testOutputs_).bestKey # bestKey_

\* the points of runSat and runAppSat inside the loop of rounds
roundPcs == {"search", "di", "refine", "measure"}

simulatedOutput(st, i, j) == At(simulate(st, At(test_vectors_, i)).ret, j)

\* C25: compute_output_value() returns one row for each output and in it one word for each
\* test vector, and the word i of row j is the element j of simulate(test_vectors_[i]).
C25_OutputValuePerOutputPerVector ==
    probe.op = "compute_output_value" =>
        /\ Len(probe.ret) = Len(outputs_)
        /\ \A j \in 0..(Len(outputs_) - 1) :
               /\ Len(At(probe.ret, j)) = Len(test_vectors_)
               /\ \A i \in 0..(Len(test_vectors_) - 1) :
                      At(At(probe.ret, j), i) = simulatedOutput(state_, i, j)

\* the shape of the result and the words whose output and test vector have the same index
C25_ShapeAndDiagonal ==
    probe.op = "compute_output_value" =>
        /\ Len(probe.ret) = Len(outputs_)
        /\ \A j \in 0..(Len(outputs_) - 1) :
               /\ Len(At(probe.ret, j)) = Len(test_vectors_)
               /\ \A i \in 0..(Len(test_vectors_) - 1) :
                      i < Len(outputs_) =>
                          At(At(probe.ret, j), i) = simulatedOutput(state_, i, i)

\* with more outputs than test vectors and nothing read past the end, a word of the result
\* is not the simulated value of its output on its test vector
C25_Witness ==
    /\ probe.op = "compute_output_value"
    /\ Len(test_vectors_) >= 1
    /\ Len(outputs_) > Len(test_vectors_)
    /\ \E j \in 0..(Len(outputs_) - 1), i \in 0..(Len(test_vectors_) - 1) :
           At(At(probe.ret, j), i) # simulatedOutput(state_, i, j)

\* C26: every output of the store is an output of the oracle, which is the design with the
\* expected key, so the expected key is a model of every Search: without a timeout of the
\* solver findNewValidKey finds a key in runPrologue and in every round of runSat, and the
\* outcome "no valid key found" is never reached.
C26_SearchNeverFails ==
    [][/\ pc = "search" =>
              /\ reproducesStore(expectedKey_)
              /\ expectedKey_ \in findNewValidKeyModels(testInputs_, testOutputs_)
              /\ pc' \in {"di", "timeout"}
       /\ pc' # "done_nokey"]_vars

\* a Search of a round of runSat that had the expected key as its only model
C26_Witness ==
    /\ pc = "di"
    /\ params.mode = "sat"
    /\ queryCount >= 1
    /\ Len(testInputs_) >= 2
    /\ findNewValidKeyModels(testInputs_, testOutputs_) = {expectedKey_}
    /\ bestKey_ = expectedKey_

\* the set of the distinct inputs of the test vectors
storedInputs(tin) == {tin[t] : t \in 1..Len(tin)}

C28_AppSatTermination ==
    /\ [](params.mode = "appsat" =>
              /\ params.nbDIQueries >= 1
              /\ queryCount <= pow2(nbInputs)
              /\ Cardinality(storedInputs(testInputs_)) >= queryCount)
    /\ [](pc \notin {"timeout", "fatal_expected_key", "done_nokey"})
    /\ <>(pc \in {"done_success", "done_approx"})

\* runAppSat ended because findDI had no model after 2^nbInputs rounds, with measurements
\* that did not settle
C28_Witness ==
    /\ params.mode = "appsat"
    /\ pc = "done_success"
    /\ queryCount = pow2(nbInputs)
    /\ params.nbRandomVectors >= 1
    /\ params.settleThreshold >= 1
    /\ params.nbDIQueries = 1

\* runAppSat ended by settling
C28_WitnessSettled ==
    /\ params.mode = "appsat"
    /\ pc = "done_approx"
    /\ queryCount >= 1
    /\ findDIModels(testInputs_, testOutputs_) # {}

\* C29: every run starts through runPrologue, which leaves a store that holds the
\* nbInitialVectors drawn vectors with the outputs of the oracle and nothing else, an empty
\* bestKey_, keyFound_ false and the counters of the rounds at zero, whatever an earlier
\* run on the same object (successful, approximate, of runSat or of runAppSat) left there:
\* what the run starts from is a function of the circuit, the expected key, the parameters
\* and the draws.
C29_RunsIndependent ==
    [][(pc = "idle" /\ pc' # "idle") =>
           /\ pc' = "search"
           /\ Len(testInputs_') = params'.nbInitialVectors
           /\ Len(testOutputs_') = params'.nbInitialVectors
           /\ \A t \in 1..Len(testInputs_') :
                  /\ testInputs_'[t] \in InputVectors
                  /\ testOutputs_'[t] = oracleOutputs(testInputs_'[t])
           /\ bestKey_' = <<>>
           /\ ~keyFound_'
           /\ queryCount' = 0 /\ settleCount' = 0
           /\ di' = NoDI /\ meas' = NoMeas
           /\ UNCHANGED <<aigStruct, ctorVars>>]_vars

\* a run without initial vectors has started on an object whose AIG holds the values of
\* the simulations of an earlier run
C29_Witness ==
    /\ pc = "search"
    /\ params.nbInitialVectors = 0
    /\ testInputs_ = <<>>
    /\ bestKey_ = <<>>
    /\ ~keyFound_
    /\ \E v \in 1..Len(state_) : state_[v] # WordZero

\* an object that a run left with a store, a key and keyFound_ set is ready for a new run
C29_UsedObject ==
    /\ pc = "idle"
    /\ keyFound_
    /\ Len(testInputs_) >= 2
    /\ Len(bestKey_) = nbKeyBits

\* a is greater than or equal to b on every objective
geqOnEveryObjective(a, b) == \A i \in 1..NbObjectives : a[i] >= b[i]

\* the elements of a front, as a set
frontElements(front) == {front[k] : k \in 1..Len(front)}

C30_WitnessRefused ==
    /\ lastAdd.called
    /\ ~lastAdd.ret
    /\ lastAdd.sol # <<>>
    /\ Len(paretoFront_) = 3

====
